---- MODULE Spec2Model ----
(***************************************************************************)
(* State-machine model of the student budgeting application: the local     *)
(* key-value store (AsyncStorage entries 'transactions' and 'budgets'),    *)
(* the add/delete transaction handlers, and the aggregation / insight      *)
(* routines of the Home, Budget Planner and Notifications screens, with    *)
(* the variants of each screen that the repository contains.               *)
(*                                                                         *)
(* Conventions.                                                            *)
(*  - Text typed into a form or stored as a JSON string is a sequence of   *)
(*    one-character strings; parseFloat is computed on it digit by digit.  *)
(*  - Amounts are whole pesos. JavaScript doubles are modelled by exact    *)
(*    integer arithmetic: a comparison such as  s >= w * 0.8  is written   *)
(*    10 * s >= 8 * w.                                                     *)
(*  - Date.now() is the variable now, in milliseconds from the moment the  *)
(*    model starts. It never runs backwards here, and it may be read twice *)
(*    without having advanced (two handlers inside one millisecond).       *)
(*  - An AsyncStorage entry is <<>> when the key is absent (getItem gives  *)
(*    null) and <<v>> when it holds the JSON text of v.                    *)
(*  - The stack navigator keeps Home mounted and mounts one screen above   *)
(*    it; Home reloads whenever it regains focus.                          *)
(*  - A handler is one step unless a specification follows its awaited     *)
(*    storage calls one by one; those are kept in pending until they       *)
(*    resume.                                                              *)
(***************************************************************************)
EXTENDS Integers, Sequences, FiniteSets, TLC

VARIABLES
    now,            \* Date.now()
    ticks,          \* how many times the clock has been advanced (bounded)
    transactions,   \* AsyncStorage 'transactions'
    budgets,        \* AsyncStorage 'budgets'
    dismissed,      \* AsyncStorage 'dismissedNotifications'
    screen,         \* the focused screen
    variant,        \* which variant of the focused screen is mounted
    homeVariant,    \* which variant of HomeScreen the build contains
    home,           \* React state of the mounted HomeScreen
    planner,        \* React state of the mounted BudgetPlannerScreen
    notif,          \* React state of the mounted NotificationsScreen
    api,            \* backend: the Budget row, the Transaction rows, last response
    dialog,         \* the Alert on display, if any
    hasLaunched,    \* AsyncStorage 'hasLaunched'
    isFirstLaunch,  \* App state: null until checkFirstLaunch has answered
    pending,        \* storage calls awaited by handlers that have not resumed yet
    onboarding,     \* React state of the OnboardingScreen, and which one is built in
    stats           \* React state of the mounted StatisticsScreen

vars == <<now, ticks, transactions, budgets, dismissed, screen, variant, homeVariant,
          home, planner, notif, api, dialog, hasLaunched, isFirstLaunch, pending,
          onboarding, stats>>

----------------------------------------------------------------------------
(* Bounds of the model *)

MaxTxns == 2
MaxTicks == 2
\* The largest weekly allowance a planner's save is followed to.
MaxAllowance == 40000
\* How many dismissals are followed through their awaited write.
MaxDismissals == 2

----------------------------------------------------------------------------
(* Text and numbers *)

Digits == {"0", "1", "2", "3", "4", "5", "6", "7", "8", "9"}

DigitVal(c) ==
    CASE c = "0" -> 0 [] c = "1" -> 1 [] c = "2" -> 2 [] c = "3" -> 3
      [] c = "4" -> 4 [] c = "5" -> 5 [] c = "6" -> 6 [] c = "7" -> 7
      [] c = "8" -> 8 [] c = "9" -> 9

DigitChar(d) ==
    CASE d = 0 -> "0" [] d = 1 -> "1" [] d = 2 -> "2" [] d = 3 -> "3"
      [] d = 4 -> "4" [] d = 5 -> "5" [] d = 6 -> "6" [] d = 7 -> "7"
      [] d = 8 -> "8" [] d = 9 -> "9"

\* The value a missing property reads as; parseFloat sees the text "undefined".
Undefined == <<"undefined">>

\* JavaScript truthiness of a text value:  !s  is  ~Truthy(s).
Truthy(s) == s # <<>> /\ s # Undefined

RECURSIVE TrimLeft(_)
TrimLeft(s) == IF s # <<>> /\ Head(s) = " " THEN TrimLeft(Tail(s)) ELSE s

RECURSIVE TrimRight(_)
TrimRight(s) ==
    IF s # <<>> /\ s[Len(s)] = " " THEN TrimRight(SubSeq(s, 1, Len(s) - 1)) ELSE s

\* String.prototype.trim
Trim(s) == TrimRight(TrimLeft(s))

NaN == [nan |-> TRUE, val |-> 0]
Num(n) == [nan |-> FALSE, val |-> n]

RECURSIVE ParseDigits(_, _, _)
ParseDigits(s, acc, seen) ==
    IF s # <<>> /\ Head(s) \in Digits
    THEN ParseDigits(Tail(s), acc * 10 + DigitVal(Head(s)), TRUE)
    ELSE IF seen THEN Num(acc) ELSE NaN

\* parseFloat on text without a fraction or an exponent: leading blanks, an
\* optional sign, then the longest run of digits; NaN when there is no digit.
ParseFloat(s) ==
    LET t == TrimLeft(s)
        neg == t # <<>> /\ Head(t) = "-"
        p == ParseDigits(IF neg THEN Tail(t) ELSE t, 0, FALSE)
    IN  IF p.nan THEN NaN ELSE Num(IF neg THEN 0 - p.val ELSE p.val)

\* parseFloat(x) || 0
ParseFloatOrZero(s) == LET p == ParseFloat(s) IN IF p.nan THEN 0 ELSE p.val

RECURSIVE NatToString(_)
NatToString(n) ==
    IF n < 10 THEN <<DigitChar(n)>>
    ELSE Append(NatToString(n \div 10), DigitChar(n % 10))

\* Number.prototype.toString for an integer
NumberToString(n) == IF n < 0 THEN <<"-">> \o NatToString(0 - n) ELSE NatToString(n)

\* Number.prototype.toFixed(0) of the quotient 100 * a / b, for a >= 0, b > 0
PercentFixed0(a, b) == (200 * a + b) \div (2 * b)

Max(a, b) == IF a >= b THEN a ELSE b

RECURSIVE SumSeq(_)
SumSeq(s) == IF s = <<>> THEN 0 ELSE Head(s) + SumSeq(Tail(s))

RECURSIVE SumOver(_, _)
\* Object.values(f).reduce((sum, val) => sum + val, 0)
SumOver(f, keys) ==
    IF keys = {} THEN 0
    ELSE LET k == CHOOSE x \in keys : TRUE IN f[k] + SumOver(f, keys \ {k})

SelectAmounts(txns, Keep(_)) ==
    LET kept == SelectSeq(txns, Keep) IN [i \in 1..Len(kept) |-> kept[i].amount]

----------------------------------------------------------------------------
(* Time *)

WindowDays == 7
WeekMs == WindowDays * 24 * 60 * 60 * 1000

\* const weekAgo = new Date(); weekAgo.setDate(weekAgo.getDate() - 7)
\* (a calendar week is 7 * 24 h: the device's zone has no daylight saving)
WeekAgo(t) == t - WeekMs

\* The steps by which the model advances the clock.
TickSteps == {1, WeekMs}

\* The clock is followed up to one millisecond past one window.
Horizon == WeekMs + 1

----------------------------------------------------------------------------
(* Storage values *)

None == <<>>
Some(v) == <<v>>
IsSome(o) == o # <<>>
\* stored ? JSON.parse(stored) : []
ParsedOrEmpty(o) == IF IsSome(o) THEN o[1] ELSE <<>>

----------------------------------------------------------------------------
(* Categories *)

\* The labels offered by the three AddTransaction forms.
categories1 == {"Allowance", "Food & Snacks", "Transportation", "School Supplies",
                "Projects", "Load/Data", "Entertainment", "Savings", "Other"}
categories2 == {"Food & Snacks", "Transportation", "School Supplies", "Projects",
                "Load/Data", "Entertainment", "Other"}
categories3 == {"Food & Snacks", "Transportation", "School Supplies", "Projects",
                "Load/Data", "Entertainment", "Other"}

\* The label -> key tables; a label outside the table maps to 'other'.
SixKeyMapping ==
    [c \in {"Transportation", "Food & Snacks", "School Supplies", "Load/Data",
            "Projects", "Savings"} |->
        CASE c = "Transportation" -> "transportation"
          [] c = "Food & Snacks" -> "food"
          [] c = "School Supplies" -> "supplies"
          [] c = "Load/Data" -> "load"
          [] c = "Projects" -> "projects"
          [] c = "Savings" -> "savings"]

HomeMapping == SixKeyMapping @@ ("Entertainment" :> "entertainment")

Planner1Mapping ==
    [c \in {"Transportation", "Food & Snacks", "School Supplies", "Load/Data",
            "Projects"} |-> SixKeyMapping[c]]

\* return mapping[category] || 'other'
getCategoryKey(mapping, category) ==
    IF category \in DOMAIN mapping THEN mapping[category] ELSE "other"

\* Every key a spending table can hold.
AllKeys == {"transportation", "food", "supplies", "load", "projects", "savings",
            "entertainment", "other"}

\* Object.entries order of a stored categories object: the order of the form.
KeyOrder == <<"transportation", "food", "supplies", "load", "projects", "savings",
              "entertainment">>

HomeLabel(key) ==
    CASE key = "transportation" -> "Transportation"
      [] key = "food" -> "Food & Snacks"
      [] key = "supplies" -> "School Supplies"
      [] key = "load" -> "Load/Data"
      [] key = "projects" -> "Projects"
      [] key = "savings" -> "Savings"
      [] key = "entertainment" -> "Entertainment"
      [] OTHER -> "Other"

\* getCategoryLabel of the screens with the six-key table
SixKeyLabel(key) == IF key = "entertainment" THEN "Other" ELSE HomeLabel(key)

----------------------------------------------------------------------------
(* Trailing-window aggregation, as every screen writes it *)

\* The window with its cutoff excluded.
InWeekAfterCutoff(t, at) == t.type = "expense" /\ t.timestamp > WeekAgo(at)

\* t.type === 'expense' && new Date(t.timestamp) >= weekAgo
InWeek(t, at) == t.type = "expense" /\ t.timestamp >= WeekAgo(at)

\* txns.filter(...).reduce((sum, t) => sum + t.amount, 0)
weeklySpentOf(txns, at) ==
    LET Keep(t) == InWeek(t, at) IN SumSeq(SelectAmounts(txns, Keep))

\* The grouping with the labels outside the table left out.
weeklySpendingByTableOnly(mapping, txns, at) ==
    LET Keep(t) == InWeek(t, at) /\ t.category \in DOMAIN mapping
        kept == SelectSeq(txns, Keep)
        keys == {mapping[kept[i].category] : i \in 1..Len(kept)}
    IN  [k \in keys |->
            LET Mine(t) == mapping[t.category] = k
            IN  SumSeq(SelectAmounts(kept, Mine))]

\* txns.filter(...).forEach(t => { table[key(t.category)] = (table[...] || 0) + t.amount })
\* The table has an entry only for keys that occur; here absent keys are not in
\* the domain.
weeklySpendingBy(mapping, txns, at) ==
    LET Keep(t) == InWeek(t, at)
        kept == SelectSeq(txns, Keep)
        keys == {getCategoryKey(mapping, kept[i].category) : i \in 1..Len(kept)}
    IN  [k \in keys |->
            LET Mine(t) == getCategoryKey(mapping, t.category) = k
            IN  SumSeq(SelectAmounts(kept, Mine))]

\* table[key] || 0
SpentOn(table, key) == IF key \in DOMAIN table THEN table[key] ELSE 0

----------------------------------------------------------------------------
(* The stored budget configuration *)

\* A stored 'budgets' object. categories maps some keys to the text typed for
\* them; a property that a writer left out reads as Undefined.
BudgetData(cats, weekly, daily, goal) ==
    [categories |-> cats, weeklyAllowance |-> weekly, dailyAllowance |-> daily,
     savingsGoal |-> goal]

EmptyObject == [k \in {} |-> <<>>]

\* budgets[category], undefined when the key is missing
Lookup(cats, key) == IF key \in DOMAIN cats THEN cats[key] ELSE Undefined

\* Object.entries(cats) in insertion order, as keys
EntriesOf(cats) == SelectSeq(KeyOrder, LAMBDA k : k \in DOMAIN cats)

----------------------------------------------------------------------------
(* Dialogs *)

NoDialog == [kind |-> "none", text |-> "", id |-> <<>>]
ErrorDialog(text) == [kind |-> "error", text |-> text, id |-> <<>>]
SuccessDialog(text) == [kind |-> "success", text |-> text, id |-> <<>>]
CautionDialog ==
    [kind |-> "caution",
     text |-> "Your daily budget exceeds your allowance. Are you sure?", id |-> <<>>]
ConfirmDelete(id) ==
    [kind |-> "confirm", text |-> "Delete Transaction", id |-> id]

----------------------------------------------------------------------------
(* HomeScreen *)

DayMs == 24 * 60 * 60 * 1000

\* const today = new Date(); today.setHours(0, 0, 0, 0)
\* (the model's clock starts at a local midnight)
StartOfDay(t) == t - (t % DayMs)

HomeInitial ==
    [transactions |-> <<>>, dailyAllowance |-> 0, weeklyAllowance |-> 0,
     savingsGoal |-> 0, balance |-> 0, spentToday |-> 0, spentThisWeek |-> 0,
     currentSavings |-> 0, budgetWarnings |-> <<>>, at |-> 0]

\* The warning list with the stored limit compared as it stands.
HomeWarningsAsStored(cats, table) ==
    LET Warns(k) ==
            LET catSpent == SpentOn(table, k)
                catBudget == ParseFloatOrZero(cats[k])
            IN  catBudget > 0 /\ 10 * catSpent >= 8 * catBudget
        keys == SelectSeq(EntriesOf(cats), Warns)
    IN  [i \in 1..Len(keys) |->
            LET catSpent == SpentOn(table, keys[i])
                catBudget == ParseFloatOrZero(cats[keys[i]])
            IN  [category |-> HomeLabel(keys[i]),
                 percentage |-> PercentFixed0(catSpent, catBudget),
                 isOver |-> catSpent >= catBudget]]

\* The warning list of calculateFinancials: a stored limit is a daily figure.
HomeWarnings(cats, table) ==
    LET Warns(k) ==
            LET catSpent == SpentOn(table, k)
                catDailyBudget == ParseFloatOrZero(cats[k])
                catWeeklyBudget == catDailyBudget * 7
            IN  catDailyBudget > 0 /\ 10 * catSpent >= 8 * catWeeklyBudget
        keys == SelectSeq(EntriesOf(cats), Warns)
    IN  [i \in 1..Len(keys) |->
            LET catSpent == SpentOn(table, keys[i])
                catWeeklyBudget == ParseFloatOrZero(cats[keys[i]]) * 7
            IN  [category |-> HomeLabel(keys[i]),
                 percentage |-> PercentFixed0(catSpent, catWeeklyBudget),
                 isOver |-> catSpent >= catWeeklyBudget]]

\* calculateFinancials(txns, budgets) evaluated at time at: the state it sets.
calculateFinancials(txns, b, at) ==
    LET weeklyAllowanceVal ==
            IF IsSome(b) THEN ParseFloatOrZero(b[1].weeklyAllowance) ELSE 0
        weeklySpent == weeklySpentOf(txns, at)
        Today(t) == t.type = "expense" /\ t.timestamp >= StartOfDay(at)
        dailySpent == SumSeq(SelectAmounts(txns, Today))
    IN  [spentThisWeek |-> weeklySpent,
         spentToday |-> dailySpent,
         balance |-> weeklyAllowanceVal - weeklySpent,
         currentSavings |-> Max(0, weeklyAllowanceVal - weeklySpent),
         budgetWarnings |->
            IF IsSome(b)
            THEN HomeWarnings(b[1].categories,
                              weeklySpendingBy(HomeMapping, txns, at))
            ELSE <<>>]

\* A load that adds the week's total to the total it finds in the state.
loadDataAccumulating(h, stored, b, at) ==
    LET txns == ParsedOrEmpty(stored)
        f == calculateFinancials(txns, b, at)
    IN  [transactions |-> txns,
         dailyAllowance |->
            IF IsSome(b) THEN ParseFloatOrZero(b[1].dailyAllowance)
            ELSE h.dailyAllowance,
         weeklyAllowance |->
            IF IsSome(b) THEN ParseFloatOrZero(b[1].weeklyAllowance)
            ELSE h.weeklyAllowance,
         savingsGoal |->
            IF IsSome(b) THEN ParseFloatOrZero(b[1].savingsGoal)
            ELSE h.savingsGoal,
         balance |-> f.balance, spentToday |-> f.spentToday,
         spentThisWeek |-> h.spentThisWeek + f.spentThisWeek,
         currentSavings |-> f.currentSavings,
         budgetWarnings |-> f.budgetWarnings, at |-> at]

\* loadData of HomeScreen: the React state after it ran at time at.
loadData(h, stored, b, at) ==
    LET txns == ParsedOrEmpty(stored)
        f == calculateFinancials(txns, b, at)
    IN  [transactions |-> txns,
         dailyAllowance |->
            IF IsSome(b) THEN ParseFloatOrZero(b[1].dailyAllowance)
            ELSE h.dailyAllowance,
         weeklyAllowance |->
            IF IsSome(b) THEN ParseFloatOrZero(b[1].weeklyAllowance)
            ELSE h.weeklyAllowance,
         savingsGoal |->
            IF IsSome(b) THEN ParseFloatOrZero(b[1].savingsGoal)
            ELSE h.savingsGoal,
         balance |-> f.balance, spentToday |-> f.spentToday,
         spentThisWeek |-> f.spentThisWeek,
         currentSavings |-> f.currentSavings,
         budgetWarnings |-> f.budgetWarnings, at |-> at]

\* checkBudgetWarnings of the earlier HomeScreen: a stored limit is compared as
\* it stands; nothing is set when no budgets are stored.
checkBudgetWarnings(old, txns, b, at) ==
    IF ~IsSome(b) THEN old
    ELSE LET cats == b[1].categories
             table == weeklySpendingBy(SixKeyMapping, txns, at)
             Warns(k) ==
                LET budgetAmount == ParseFloatOrZero(cats[k])
                IN  budgetAmount > 0 /\ 10 * SpentOn(table, k) >= 8 * budgetAmount
             keys == SelectSeq(EntriesOf(cats), Warns)
         IN  [i \in 1..Len(keys) |->
                LET budgetAmount == ParseFloatOrZero(cats[keys[i]])
                    spent == SpentOn(table, keys[i])
                IN  [category |-> SixKeyLabel(keys[i]),
                     percentage |-> PercentFixed0(spent, budgetAmount),
                     isOver |-> spent >= budgetAmount]]

\* calculateStats of the earlier HomeScreen (totalAllowance, totalSpent, savings
\* and balance are held in weeklyAllowance, spentThisWeek, currentSavings and
\* balance): every expense counts, whatever its age.
calculateStats(h, txns, b) ==
    LET weeklyAllowanceVal ==
            IF IsSome(b) THEN ParseFloatOrZero(b[1].weeklyAllowance) ELSE 0
        IsExpense(t) == t.type = "expense"
        spent == SumSeq(SelectAmounts(txns, IsExpense))
    IN  [h EXCEPT !.weeklyAllowance = weeklyAllowanceVal,
                  !.spentThisWeek = spent,
                  !.currentSavings = Max(0, weeklyAllowanceVal - spent),
                  !.balance = weeklyAllowanceVal - spent]

\* loadTransactions of the earlier HomeScreen
loadTransactions(h, stored, b, at) ==
    LET txns == ParsedOrEmpty(stored)
        s == calculateStats([h EXCEPT !.transactions = txns], txns, b)
    IN  [s EXCEPT !.budgetWarnings = checkBudgetWarnings(h.budgetWarnings, txns, b, at),
                  !.at = at]

\* calculateStats of the third HomeScreen: the allowance is the sum of the
\* incomes, the savings the sum of what was entered under 'Savings'.
calculateStats3(h, txns) ==
    LET allowance == SumSeq(SelectAmounts(txns, LAMBDA t : t.type = "income"))
        spent == SumSeq(SelectAmounts(txns, LAMBDA t : t.type = "expense"))
        savingsAmount == SumSeq(SelectAmounts(txns, LAMBDA t : t.category = "Savings"))
    IN  [h EXCEPT !.weeklyAllowance = allowance,
                  !.spentThisWeek = spent,
                  !.currentSavings = savingsAmount,
                  !.balance = allowance - spent]

\* loadTransactions of the third HomeScreen: nothing is set when no
\* transactions entry is stored.
loadTransactions3(h, stored, b, at) ==
    IF ~IsSome(stored) THEN h
    ELSE LET s == calculateStats3([h EXCEPT !.transactions = stored[1]], stored[1])
         IN  [s EXCEPT !.budgetWarnings =
                           checkBudgetWarnings(h.budgetWarnings, stored[1], b, at),
                       !.at = at]

\* What Home's focus effect leaves in its state.
HomeFocus(h, stored, b, at) ==
    CASE homeVariant = "HomeScreen" -> loadData(h, stored, b, at)
      [] homeVariant = "HomeScreenThird" -> loadTransactions3(h, stored, b, at)
      [] OTHER -> loadTransactions(h, stored, b, at)

----------------------------------------------------------------------------
(* StatisticsScreen *)

\* useState of the StatisticsScreen
StatsInitial ==
    [period |-> "daily", transactions |-> <<>>, totalSpent |-> 0,
     totalIncome |-> 0, transactionCount |-> 0, at |-> 0]

\* filterByPeriod: today is the local midnight, weekAgo 7 days before it,
\* monthAgo the midnight one month of 28 days before it (counted in days).
filterByPeriod(period, txns, at) ==
    LET today == StartOfDay(at)
        Keep(txn) ==
            CASE period = "daily" -> txn.timestamp >= today
              [] period = "weekly" -> txn.timestamp >= today - WeekMs
              [] period = "monthly" ->
                    txn.timestamp \div DayMs >= today \div DayMs - 28
              [] OTHER -> TRUE
    IN  SelectSeq(txns, Keep)

\* loadStatistics with calculateStats: the React state after it ran at time at;
\* nothing is set when no transactions entry is stored.
loadStatistics(st, stored, at) ==
    IF ~IsSome(stored) THEN st
    ELSE LET filtered == filterByPeriod(st.period, stored[1], at)
         IN  [st EXCEPT
                !.transactions = filtered,
                !.totalSpent =
                    SumSeq(SelectAmounts(filtered, LAMBDA t : t.type = "expense")),
                !.totalIncome =
                    SumSeq(SelectAmounts(filtered, LAMBDA t : t.type = "income")),
                !.transactionCount = Len(filtered),
                !.at = at]

----------------------------------------------------------------------------
(* AddTransactionScreen: the three handleSave *)

\* The validation with its last comparison strict: a zero amount passes.
InvalidAmountStrict(amount) ==
    ~Truthy(amount) \/ ParseFloat(amount).nan \/ ParseFloat(amount).val < 0

\* !amount || isNaN(parseFloat(amount)) || parseFloat(amount) <= 0
InvalidAmount(amount) ==
    ~Truthy(amount) \/ ParseFloat(amount).nan \/ ParseFloat(amount).val <= 0

NewTransaction(title, amount, type, category) ==
    [id |-> NumberToString(now), title |-> title,
     amount |-> ParseFloat(amount).val, type |-> type, category |-> category,
     timestamp |-> now]

\* The new record put at the end of the list instead.
PushAtEnd(stored, transaction) == Some(ParsedOrEmpty(stored) \o <<transaction>>)

\* const transactions = stored ? JSON.parse(stored) : [];
\* transactions.unshift(transaction); setItem('transactions', ...)
Unshift(stored, transaction) == Some(<<transaction>> \o ParsedOrEmpty(stored))

OnAdd(v) == screen = "AddTransaction" /\ variant = v /\ dialog.kind = "none"

RoomForOne == Len(ParsedOrEmpty(transactions)) < MaxTxns

\* The first AddTransactionScreen: expense or income, nine labels.
handleSave1(title, amount, type, category) ==
    /\ OnAdd("Add1")
    /\ IF Trim(title) = <<>>
       THEN /\ dialog' = ErrorDialog("Please enter a description")
            /\ UNCHANGED transactions
       ELSE IF InvalidAmount(amount)
       THEN /\ dialog' = ErrorDialog("Please enter a valid amount")
            /\ UNCHANGED transactions
       ELSE /\ RoomForOne
            /\ transactions' =
                 Unshift(transactions, NewTransaction(Trim(title), amount, type, category))
            /\ dialog' = SuccessDialog("Transaction saved!")
    /\ UNCHANGED <<stats, onboarding, hasLaunched, isFirstLaunch, pending, now, ticks, budgets, dismissed, screen, variant, homeVariant, home,
                   planner, notif, api>>

\* The second AddTransactionScreen: the type stays 'expense' (nothing calls
\* setType), seven labels, the title defaults to the label.
handleSave2(title, amount, selectedCategoryName) ==
    /\ OnAdd("Add2")
    /\ IF InvalidAmount(amount)
       THEN /\ dialog' = ErrorDialog("Please enter a valid amount")
            /\ UNCHANGED transactions
       ELSE IF selectedCategoryName = "Other" /\ Trim(title) = <<>>
       THEN /\ dialog' = ErrorDialog("Please enter a description for Other category")
            /\ UNCHANGED transactions
       ELSE /\ RoomForOne
            /\ transactions' =
                 Unshift(transactions,
                         NewTransaction(IF Trim(title) # <<>> THEN Trim(title)
                                        ELSE <<selectedCategoryName>>,
                                        amount, "expense", selectedCategoryName))
            /\ UNCHANGED dialog
    /\ UNCHANGED <<stats, onboarding, hasLaunched, isFirstLaunch, pending, now, ticks, budgets, dismissed, screen, variant, homeVariant, home,
                   planner, notif, api>>

\* handleSave of the second form with setItem rejecting: the catch branch.
handleSave2Fails(title, amount, selectedCategoryName) ==
    /\ OnAdd("Add2")
    /\ ~InvalidAmount(amount)
    /\ ~(selectedCategoryName = "Other" /\ Trim(title) = <<>>)
    /\ dialog' = ErrorDialog("Failed to save transaction")
    /\ UNCHANGED <<stats, onboarding, hasLaunched, isFirstLaunch, pending, now, ticks, transactions, budgets, dismissed, screen, variant,
                   homeVariant, home, planner, notif, api>>

\* The third AddTransactionScreen: expenses only.
handleSave3(title, amount, category) ==
    /\ OnAdd("Add3")
    /\ IF Trim(title) = <<>>
       THEN /\ dialog' = ErrorDialog("Please enter a description")
            /\ UNCHANGED transactions
       ELSE IF InvalidAmount(amount)
       THEN /\ dialog' = ErrorDialog("Please enter a valid amount")
            /\ UNCHANGED transactions
       ELSE /\ RoomForOne
            /\ transactions' =
                 Unshift(transactions, NewTransaction(Trim(title), amount, "expense", category))
            /\ dialog' = SuccessDialog("Expense saved!")
    /\ UNCHANGED <<stats, onboarding, hasLaunched, isFirstLaunch, pending, now, ticks, budgets, dismissed, screen, variant, homeVariant, home,
                   planner, notif, api>>

----------------------------------------------------------------------------
(* Deleting from the Home list *)

\* onLongPress of a rendered transaction: the confirmation dialog opens.
handleDeleteTransaction(id) ==
    /\ screen = "Home" /\ dialog.kind = "none"
    /\ \E i \in 1..Len(home.transactions) : home.transactions[i].id = id
    /\ dialog' = ConfirmDelete(id)
    /\ UNCHANGED <<stats, onboarding, hasLaunched, isFirstLaunch, pending, now, ticks, transactions, budgets, dismissed, screen, variant,
                   homeVariant, home, planner, notif, api>>

\* The filter dropping the first record whatever the identifier.
WithoutHead(txns, id) == IF txns = <<>> THEN <<>> ELSE Tail(txns)

Without(txns, id) == SelectSeq(txns, LAMBDA txn : txn.id # id)

\* setTransactions(updated) and the recomputation that follows the write.
HomeAfterDelete(updated) ==
    IF homeVariant = "HomeScreen"
    THEN LET f == calculateFinancials(updated, budgets, now)
         IN  [home EXCEPT !.transactions = updated,
                          !.balance = f.balance,
                          !.spentToday = f.spentToday,
                          !.spentThisWeek = f.spentThisWeek,
                          !.currentSavings = f.currentSavings,
                          !.budgetWarnings = f.budgetWarnings,
                          !.at = now]
    ELSE calculateStats([home EXCEPT !.transactions = updated], updated, budgets)

\* 'Delete' pressed. HomeScreen filters the stored list; the earlier HomeScreen
\* filters the list it holds in memory.
DeletePressed ==
    /\ dialog.kind = "confirm"
    /\ LET updated ==
            IF homeVariant = "HomeScreen"
            THEN Without(ParsedOrEmpty(transactions), dialog.id)
            ELSE Without(home.transactions, dialog.id)
       IN  /\ transactions' = Some(updated)
           /\ home' = HomeAfterDelete(updated)
    /\ dialog' = NoDialog
    /\ UNCHANGED <<stats, onboarding, hasLaunched, isFirstLaunch, pending, now, ticks, budgets, dismissed, screen, variant, homeVariant, planner,
                   notif, api>>

\* 'Cancel' pressed.
CancelPressed ==
    /\ dialog.kind = "confirm"
    /\ dialog' = NoDialog
    /\ UNCHANGED <<stats, onboarding, hasLaunched, isFirstLaunch, pending, now, ticks, transactions, budgets, dismissed, screen, variant,
                   homeVariant, home, planner, notif, api>>

----------------------------------------------------------------------------
(* Navigation and the clock *)

PlannerInitial ==
    [budgets |-> EmptyObject, spending |-> EmptyObject, weeklyAllowance |-> <<>>,
     dailyAllowance |-> <<>>, savingsGoal |-> <<>>, transactions |-> <<>>,
     currentSavings |-> 0, financialInsights |-> <<>>, at |-> 0]

NotifInitial ==
    [notifications |-> <<>>, generated |-> <<>>, insights |-> <<>>,
     dismissedNotifications |-> <<>>, at |-> 0]

\* at: when the last response was computed
\* request: what the last request addressed and carried
NoRequest ==
    [id |-> <<>>, period |-> "", title |-> <<>>, amount |-> <<>>, type |-> "",
     category |-> "", timestamp |-> 0]

ApiInitial ==
    [budget |-> None, rows |-> <<>>, request |-> NoRequest, response |-> <<>>,
     at |-> 0]

\* useState of the OnboardingScreen; build tells which of the two is built in:
\* OnboardingScreen.js, or the one kept in NotificationsScreen.js.
OnboardingInitial(build) ==
    [build |-> build, currentIndex |-> 0, showBudgetSetup |-> FALSE,
     amount |-> <<>>, budgets |-> EmptyObject, savingsGoal |-> <<>>]

\* navigation.navigate('AddTransaction') from Home
OpenAddTransaction(v) ==
    /\ screen = "Home" /\ dialog.kind = "none"
    /\ screen' = "AddTransaction" /\ variant' = v
    /\ UNCHANGED <<stats, onboarding, hasLaunched, isFirstLaunch, pending, now, ticks, transactions, budgets, dismissed, homeVariant, home,
                   planner, notif, api, dialog>>

\* The screen above Home is left (back button, goBack, navigate('Home')): it
\* unmounts and Home's focus effect reloads. A save the form left awaiting its
\* storage calls goes on without the form.
GoBack ==
    /\ screen \notin {"Home", "Loading", "Onboarding"} /\ dialog.kind = "none"
    /\ screen' = "Home" /\ variant' = homeVariant
    /\ home' = HomeFocus(home, transactions, budgets, now)
    /\ planner' = PlannerInitial /\ notif' = NotifInitial /\ stats' = StatsInitial
    /\ pending' = [i \in DOMAIN pending |-> [pending[i] EXCEPT !.mounted = FALSE]]
    /\ UNCHANGED <<onboarding, hasLaunched, isFirstLaunch, now, ticks, transactions, budgets, dismissed, homeVariant, api, dialog>>

\* OK on an error or success Alert. After 'Transaction saved!' the first
\* AddTransactionScreen goes back, and so does the first planner after
\* 'Budget plan saved!'.
DismissDialog ==
    /\ dialog.kind \in {"error", "success"}
    /\ dialog' = NoDialog
    /\ IF /\ dialog.kind = "success"
          /\ \/ screen = "AddTransaction" /\ variant = "Add1"
             \/ screen = "BudgetPlanner" /\ variant = "Planner"
       THEN /\ screen' = "Home" /\ variant' = homeVariant
            /\ home' = HomeFocus(home, transactions, budgets, now)
            /\ planner' = PlannerInitial
       ELSE UNCHANGED <<screen, variant, home, planner>>
    /\ UNCHANGED <<stats, onboarding, hasLaunched, isFirstLaunch, pending, now, ticks, transactions, budgets, dismissed, homeVariant,
                   notif, api>>

\* navigation.navigate('Statistics') from Home: the screen mounts on 'daily'
\* and its effect loads
OpenStatistics ==
    /\ screen = "Home" /\ dialog.kind = "none"
    /\ screen' = "Statistics" /\ variant' = "Statistics"
    /\ stats' = loadStatistics(StatsInitial, transactions, now)
    /\ UNCHANGED <<onboarding, hasLaunched, isFirstLaunch, pending, now, ticks,
                   transactions, budgets, dismissed, homeVariant, home, planner,
                   notif, api, dialog>>

\* setPeriod(p) of the period selector, and the effect on [period] that loads
setPeriod(p) ==
    /\ screen = "Statistics" /\ dialog.kind = "none"
    /\ p # stats.period
    /\ stats' = loadStatistics([stats EXCEPT !.period = p], transactions, now)
    /\ UNCHANGED <<onboarding, hasLaunched, isFirstLaunch, pending, now, ticks,
                   transactions, budgets, dismissed, screen, variant, homeVariant,
                   home, planner, notif, api, dialog>>

Tick(d) ==
    /\ ticks < MaxTicks /\ now + d <= Horizon
    /\ now' = now + d /\ ticks' = ticks + 1
    /\ UNCHANGED <<stats, onboarding, hasLaunched, isFirstLaunch, pending, transactions, budgets, dismissed,
                   screen, variant, homeVariant, home, planner, notif, api, dialog>>

----------------------------------------------------------------------------
(* The awaited storage calls of a save and of a delete, one by one *)

\* An operation between its awaited calls: what it is, the call it awaits, the
\* identifier it adds or drops, the record of an add, the list it holds, and
\* whether the form that started it is still mounted.
Op(op, pc, id, txn, list) ==
    [op |-> op, pc |-> pc, id |-> id, txn |-> txn, list |-> list, mounted |-> TRUE]

Begun(op) == Len(SelectSeq(pending, LAMBDA o : o.op = op))

\* disabled={isSaving || !amount}: the state of the mounted form
isSaving ==
    \E i \in 1..Len(pending) :
        pending[i].op = "save" /\ pending[i].pc # "done" /\ pending[i].mounted

\* handleSave of the second AddTransactionScreen up to its first await:
\* validation, setIsSaving(true), the record, getItem issued.
handleSave2Begin(title, amount, selectedCategoryName) ==
    /\ OnAdd("Add2") /\ ~isSaving
    /\ IF InvalidAmount(amount)
       THEN /\ dialog' = ErrorDialog("Please enter a valid amount")
            /\ UNCHANGED pending
       ELSE IF selectedCategoryName = "Other" /\ Trim(title) = <<>>
       THEN /\ dialog' = ErrorDialog("Please enter a description for Other category")
            /\ UNCHANGED pending
       ELSE /\ Begun("save") < MaxTxns
            /\ LET transaction ==
                     NewTransaction(IF Trim(title) # <<>> THEN Trim(title)
                                    ELSE <<selectedCategoryName>>,
                                    amount, "expense", selectedCategoryName)
               IN  pending' = Append(pending, Op("save", "getItem", transaction.id,
                                                 Some(transaction), <<>>))
            /\ UNCHANGED dialog
    /\ UNCHANGED <<stats, onboarding, hasLaunched, isFirstLaunch, now, ticks, transactions, budgets, dismissed,
                   screen, variant, homeVariant, home, planner, notif, api>>

\* 'Delete' pressed, up to the first await. HomeScreen issues getItem; the
\* earlier HomeScreen filters the list it holds and issues setItem.
DeletePressedBegin ==
    /\ dialog.kind = "confirm"
    /\ Begun("delete") < MaxTxns
    /\ pending' =
         Append(pending,
                IF homeVariant = "HomeScreen"
                THEN Op("delete", "getItem", dialog.id, None, <<>>)
                ELSE Op("delete", "setItem", dialog.id, None,
                        Without(home.transactions, dialog.id)))
    /\ dialog' = NoDialog
    /\ UNCHANGED <<stats, onboarding, hasLaunched, isFirstLaunch, now, ticks, transactions, budgets, dismissed,
                   screen, variant, homeVariant, home, planner, notif, api>>

\* await AsyncStorage.getItem('transactions') resumes: the handler holds what
\* the store held, with its record put in front or its identifier filtered out.
getItemResolves(i) ==
    /\ i \in 1..Len(pending) /\ pending[i].pc = "getItem"
    /\ pending' =
         [pending EXCEPT
            ![i].pc = "setItem",
            ![i].list =
               IF pending[i].op = "save"
               THEN ParsedOrEmpty(Unshift(transactions, pending[i].txn[1]))
               ELSE Without(ParsedOrEmpty(transactions), pending[i].id)]
    /\ UNCHANGED <<stats, onboarding, hasLaunched, isFirstLaunch, now, ticks, transactions, budgets, dismissed,
                   screen, variant, homeVariant, home, planner, notif, api, dialog>>

\* await AsyncStorage.setItem('transactions', ...) resumes: the held list is
\* the stored list; a delete then shows it on Home; finally the flag is reset.
setItemResolves(i) ==
    /\ i \in 1..Len(pending) /\ pending[i].pc = "setItem"
    /\ transactions' = Some(pending[i].list)
    /\ pending' = [pending EXCEPT ![i].pc = "done"]
    /\ home' = IF pending[i].op = "delete" THEN HomeAfterDelete(pending[i].list)
               ELSE home
    /\ UNCHANGED <<stats, onboarding, hasLaunched, isFirstLaunch, now, ticks, budgets, dismissed,
                   screen, variant, homeVariant, planner, notif, api, dialog>>

----------------------------------------------------------------------------
(* BudgetPlannerScreen: three variants *)

\* x || ''
OrEmpty(s) == IF Truthy(s) THEN s ELSE <<>>

\* The status without the early return on a budget of 0: the percentage
\* spent / 0 * 100 is Infinity when something was spent, NaN otherwise.
getStatusUnguarded(p, category) ==
    LET budget == ParseFloatOrZero(Lookup(p.budgets, category))
        spent == SpentOn(p.spending, category)
    IN  IF budget = 0 THEN (IF spent > 0 THEN "Over Budget!" ELSE "Good")
        ELSE IF 100 * spent >= 100 * budget /\ budget > 0 THEN "Over Budget!"
        ELSE IF 100 * spent >= 80 * budget /\ budget > 0 THEN "Almost Over"
        ELSE IF 100 * spent >= 50 * budget /\ budget > 0 THEN "On Track"
        ELSE "Good"

\* getStatus of the planners that compare a stored limit as it stands.
\* "null" stands for the null it returns when there is no budget.
getStatus(p, category) ==
    LET budget == ParseFloatOrZero(Lookup(p.budgets, category))
        spent == SpentOn(p.spending, category)
    IN  IF budget = 0 THEN "null"
        ELSE IF 100 * spent >= 100 * budget /\ budget > 0 THEN "Over Budget!"
        ELSE IF 100 * spent >= 80 * budget /\ budget > 0 THEN "Almost Over"
        ELSE IF 100 * spent >= 50 * budget /\ budget > 0 THEN "On Track"
        ELSE "Good"

\* getStatus of the third planner: the stored limit is a daily figure.
getStatus1(p, category) ==
    LET dailyBudget == ParseFloatOrZero(Lookup(p.budgets, category))
        weeklyBudget == dailyBudget * 7
        weeklySpent == SpentOn(p.spending, category)
    IN  IF dailyBudget = 0 THEN "null"
        ELSE IF 100 * weeklySpent >= 100 * weeklyBudget /\ dailyBudget > 0 THEN "Over Budget!"
        ELSE IF 100 * weeklySpent >= 80 * weeklyBudget /\ dailyBudget > 0 THEN "Almost Over"
        ELSE "Good"

\* Object.values(budgets).reduce((sum, val) => sum + (parseFloat(val) || 0), 0)
getTotalBudgeted(b) ==
    SumOver([k \in DOMAIN b |-> ParseFloatOrZero(b[k])], DOMAIN b)

\* Object.values(spending).reduce((sum, val) => sum + val, 0)
getTotalSpent(spending) == SumOver(spending, DOMAIN spending)

Insight(type, title, category) ==
    [type |-> type, title |-> title, category |-> category]

\* The message with the two middle bands exchanged.
SavingsInsight0Exchanged(weeklyAmount, totalSpent) ==
    LET potentialSavings == weeklyAmount - totalSpent
    IN  IF weeklyAmount > 0
        THEN IF 100 * potentialSavings > 20 * weeklyAmount
             THEN <<Insight("excellent", "Excellent Savings Potential!", "")>>
             ELSE IF 100 * potentialSavings > 10 * weeklyAmount
             THEN <<Insight("warning", "Low Savings Rate", "")>>
             ELSE IF 100 * potentialSavings > 0
             THEN <<Insight("good", "Good Savings Potential", "")>>
             ELSE <<Insight("danger", "Overspending Alert!", "")>>
        ELSE <<>>

\* The savings-rate message of the second planner, as a list of 0 or 1 insight.
\* savingsPercentage = potentialSavings / weeklyAmount * 100, weeklyAmount > 0.
SavingsInsight0(weeklyAmount, totalSpent) ==
    LET potentialSavings == weeklyAmount - totalSpent
    IN  IF weeklyAmount > 0
        THEN IF 100 * potentialSavings > 20 * weeklyAmount
             THEN <<Insight("excellent", "Excellent Savings Potential!", "")>>
             ELSE IF 100 * potentialSavings > 10 * weeklyAmount
             THEN <<Insight("good", "Good Savings Potential", "")>>
             ELSE IF 100 * potentialSavings > 0
             THEN <<Insight("warning", "Low Savings Rate", "")>>
             ELSE <<Insight("danger", "Overspending Alert!", "")>>
        ELSE <<>>

\* The savings-rate message of the third planner.
SavingsInsight1(weeklyAmount, totalSpent) ==
    LET potentialSavings == weeklyAmount - totalSpent
    IN  IF weeklyAmount > 0
        THEN IF 100 * potentialSavings > 20 * weeklyAmount
             THEN <<Insight("excellent", "Excellent Savings Potential!", "")>>
             ELSE IF 100 * potentialSavings < 0
             THEN <<Insight("danger", "Overspending Alert!", "")>>
             ELSE <<>>
        ELSE <<>>

\* Object.entries(spending) in insertion order: here the order of KeyOrder, then 'other'.
SpendingKeys(spending) ==
    SelectSeq(KeyOrder \o <<"other">>, LAMBDA k : k \in DOMAIN spending)

\* generateFinancialInsights of the second planner
generateFinancialInsights0(p) ==
    LET totalBudgeted == getTotalBudgeted(p.budgets)
        totalSpent == getTotalSpent(p.spending)
        dailyAmount == ParseFloatOrZero(p.weeklyAllowance)
        weeklyAmount == dailyAmount * 7
        potentialSavings == weeklyAmount - totalSpent
        Over(k) ==
            LET budgetAmount == ParseFloatOrZero(Lookup(p.budgets, k))
            IN  budgetAmount > 0 /\ 100 * p.spending[k] > 100 * budgetAmount
        overKeys == SelectSeq(SpendingKeys(p.spending), Over)
    IN  SavingsInsight0(weeklyAmount, totalSpent)
        \o [i \in 1..Len(overKeys) |-> Insight("warning", "Over Budget", overKeys[i])]
        \o (IF weeklyAmount > 0 /\ potentialSavings > 0
            THEN <<Insight("info", "Future Planning", "")>> ELSE <<>>)
        \o (IF dailyAmount - totalBudgeted > 0
            THEN <<Insight("excellent", "Weekly Savings Potential!", "")>> ELSE <<>>)

\* generateFinancialInsights of the third planner
generateFinancialInsights1(p) ==
    LET totalSpent == getTotalSpent(p.spending)
        dailyAmount == ParseFloatOrZero(p.dailyAllowance)
        weeklyAmount == dailyAmount * 7
        Over(k) ==
            LET dailyBudget == ParseFloatOrZero(Lookup(p.budgets, k))
            IN  dailyBudget > 0 /\ p.spending[k] > dailyBudget * 7
        overKeys == SelectSeq(SpendingKeys(p.spending), Over)
        goal == ParseFloat(p.savingsGoal)
    IN  SavingsInsight1(weeklyAmount, totalSpent)
        \o [i \in 1..Len(overKeys) |-> Insight("warning", "Over Budget", overKeys[i])]
        \o (IF Truthy(p.savingsGoal) /\ ~goal.nan /\ goal.val > 0
               /\ 100 * p.currentSavings >= 100 * goal.val
            THEN <<Insight("excellent", "Savings Goal Achieved!", "")>> ELSE <<>>)

\* The first planner after mounting: loadBudgets and loadSpending.
PlannerMount(stored, b, at) ==
    [PlannerInitial EXCEPT
        !.budgets = IF IsSome(b) THEN b[1].categories ELSE EmptyObject,
        !.weeklyAllowance = IF IsSome(b) THEN OrEmpty(b[1].weeklyAllowance) ELSE <<>>,
        !.spending = IF IsSome(stored)
                     THEN weeklySpendingBy(SixKeyMapping, stored[1], at)
                     ELSE EmptyObject,
        !.at = at]

\* The second planner after mounting: the same loads, then the insight effect.
Planner0Mount(stored, b, at) ==
    LET p == PlannerMount(stored, b, at)
    IN  [p EXCEPT !.financialInsights = generateFinancialInsights0(p)]

Planner1Keys == {"transportation", "food", "supplies", "load", "projects",
                 "savings", "entertainment"}

\* calculateCurrentSavings of the third planner
calculateCurrentSavings(txns, b, at) ==
    IF ~IsSome(b) THEN 0
    ELSE Max(0, ParseFloatOrZero(b[1].dailyAllowance) * 7 - weeklySpentOf(txns, at))

\* The third planner after its focus effect: loadData, then the insight effect.
Planner1Mount(stored, b, at) ==
    LET txns == ParsedOrEmpty(stored)
        p == [PlannerInitial EXCEPT
                !.transactions = txns,
                !.dailyAllowance = IF IsSome(b) THEN OrEmpty(b[1].dailyAllowance) ELSE <<>>,
                !.savingsGoal = IF IsSome(b) THEN OrEmpty(b[1].savingsGoal) ELSE <<>>,
                !.budgets =
                    [k \in Planner1Keys |->
                        IF IsSome(b) THEN OrEmpty(Lookup(b[1].categories, k)) ELSE <<>>],
                !.spending = weeklySpendingBy(Planner1Mapping, txns, at),
                !.currentSavings = calculateCurrentSavings(txns, b, at),
                !.at = at]
    IN  [p EXCEPT !.financialInsights = generateFinancialInsights1(p)]

\* navigation.navigate('BudgetPlanner') from Home
OpenBudgetPlanner(v) ==
    /\ screen = "Home" /\ dialog.kind = "none"
    /\ screen' = "BudgetPlanner" /\ variant' = v
    /\ planner' = CASE v = "Planner" -> PlannerMount(transactions, budgets, now)
                    [] v = "Planner0" -> Planner0Mount(transactions, budgets, now)
                    [] v = "Planner1" -> Planner1Mount(transactions, budgets, now)
    /\ UNCHANGED <<stats, onboarding, hasLaunched, isFirstLaunch, pending, now, ticks, transactions, budgets, dismissed, homeVariant, home, notif,
                   api, dialog>>

\* onChangeText of the allowance field of the second planner, and the insight
\* effect that follows the state change.
setWeeklyAllowance(text) ==
    /\ screen = "BudgetPlanner" /\ variant = "Planner0" /\ dialog.kind = "none"
    /\ planner' =
         LET p == [planner EXCEPT !.weeklyAllowance = text]
         IN  [p EXCEPT !.financialInsights = generateFinancialInsights0(p)]
    /\ UNCHANGED <<stats, onboarding, hasLaunched, isFirstLaunch, pending, now, ticks, transactions, budgets, dismissed, screen, variant,
                   homeVariant, home, notif, api, dialog>>

\* updateBudget(category, value): a limit typed into its field; the third
\* planner's insight effect follows the state change.
updateBudget(category, value) ==
    /\ screen = "BudgetPlanner" /\ variant \in {"Planner", "Planner1"}
    /\ dialog.kind = "none"
    /\ planner' =
         LET p == [planner EXCEPT
                     !.budgets = [k \in DOMAIN planner.budgets \cup {category} |->
                                     IF k = category THEN value ELSE planner.budgets[k]]]
         IN  IF variant = "Planner1"
             THEN [p EXCEPT !.financialInsights = generateFinancialInsights1(p)]
             ELSE p
    /\ UNCHANGED <<stats, onboarding, hasLaunched, isFirstLaunch, pending, now, ticks, transactions, budgets, dismissed, screen, variant,
                   homeVariant, home, notif, api, dialog>>

\* saveBudgets of the first planner; ok tells whether setItem resolved.
saveBudgets(ok) ==
    /\ screen = "BudgetPlanner" /\ variant = "Planner" /\ dialog.kind = "none"
    /\ IF ok
       THEN /\ budgets' = Some(BudgetData(planner.budgets, planner.weeklyAllowance,
                                         Undefined, Undefined))
            /\ dialog' = SuccessDialog("Budget plan saved!")
       ELSE /\ dialog' = ErrorDialog("Failed to save budget plan")
            /\ UNCHANGED budgets
    /\ UNCHANGED <<stats, onboarding, hasLaunched, isFirstLaunch, pending, now, ticks, transactions, dismissed, screen, variant,
                   homeVariant, home, planner, notif, api>>

\* saveBudgets of the second planner: the text of the allowance field, which
\* loadBudgets filled with the stored weeklyAllowance, is parsed as the daily
\* amount; no savings goal is written. The Alert has no onPress.
saveBudgets0(ok) ==
    /\ screen = "BudgetPlanner" /\ variant = "Planner0" /\ dialog.kind = "none"
    /\ ParseFloatOrZero(planner.weeklyAllowance) * 7 <= MaxAllowance
    /\ IF ok
       THEN LET dailyAmount == ParseFloatOrZero(planner.weeklyAllowance)
            IN  /\ budgets' = Some(BudgetData(planner.budgets,
                                              NumberToString(dailyAmount * 7),
                                              NumberToString(dailyAmount), Undefined))
                /\ dialog' = SuccessDialog("Budget plan saved!")
       ELSE /\ dialog' = ErrorDialog("Failed to save budget plan")
            /\ UNCHANGED budgets
    /\ UNCHANGED <<stats, onboarding, hasLaunched, isFirstLaunch, pending, now, ticks,
                   transactions, dismissed, screen, variant, homeVariant, home,
                   planner, notif, api>>

\* A save that tells the failure after part of the plan was written.
performSaveTornWrite(ok) ==
    IF ok
    THEN LET dailyAmount == ParseFloatOrZero(planner.dailyAllowance)
             data == BudgetData(planner.budgets, NumberToString(dailyAmount * 7),
                                NumberToString(dailyAmount),
                                OrEmpty(planner.savingsGoal))
         IN  /\ budgets' = Some(data)
             /\ dialog' = SuccessDialog("Budget plan saved!")
             /\ planner' = Planner1Mount(transactions, Some(data), now)
    ELSE /\ dialog' = ErrorDialog("Failed to save budget")
         /\ budgets' = Some(BudgetData(planner.budgets, Undefined, Undefined, Undefined))
         /\ UNCHANGED planner

\* performSave(dailyAmount) of the third planner: the plan is stored and the
\* screen reloads, or the write failed and the dialog tells it.
performSave(ok) ==
    IF ok
    THEN LET dailyAmount == ParseFloatOrZero(planner.dailyAllowance)
             data == BudgetData(planner.budgets, NumberToString(dailyAmount * 7),
                                NumberToString(dailyAmount),
                                OrEmpty(planner.savingsGoal))
         IN  /\ budgets' = Some(data)
             /\ dialog' = SuccessDialog("Budget plan saved!")
             /\ planner' = Planner1Mount(transactions, Some(data), now)
    ELSE /\ dialog' = ErrorDialog("Failed to save budget")
         /\ UNCHANGED <<budgets, planner>>

\* saveBudgets of the third planner: a plan above the allowance asks first.
saveBudgets1(ok) ==
    /\ screen = "BudgetPlanner" /\ variant = "Planner1" /\ dialog.kind = "none"
    /\ IF getTotalBudgeted(planner.budgets) > ParseFloatOrZero(planner.dailyAllowance)
       THEN /\ dialog' = CautionDialog
            /\ UNCHANGED <<budgets, planner>>
       ELSE performSave(ok)
    /\ UNCHANGED <<stats, onboarding, hasLaunched, isFirstLaunch, pending, now, ticks, transactions, dismissed, screen, variant,
                   homeVariant, home, notif, api>>

\* 'Yes, Save' on the caution
CautionYesSave(ok) ==
    /\ dialog.kind = "caution"
    /\ performSave(ok)
    /\ UNCHANGED <<stats, onboarding, hasLaunched, isFirstLaunch, pending, now, ticks, transactions, dismissed, screen, variant,
                   homeVariant, home, notif, api>>

\* 'Cancel' on the caution
CautionCancel ==
    /\ dialog.kind = "caution"
    /\ dialog' = NoDialog
    /\ UNCHANGED <<stats, onboarding, hasLaunched, isFirstLaunch, pending, now, ticks, transactions, budgets, dismissed, screen, variant,
                   homeVariant, home, planner, notif, api>>

----------------------------------------------------------------------------
(* App: launch, onboarding *)

\* The app is closed and opened again: every component is constructed anew,
\* handlers in flight are gone, the storage is kept.
Launch ==
    /\ screen # "Loading"
    /\ isFirstLaunch' = None
    /\ screen' = "Loading" /\ variant' = "Loading"
    /\ home' = HomeInitial /\ planner' = PlannerInitial /\ notif' = NotifInitial
    /\ stats' = StatsInitial
    /\ dialog' = NoDialog /\ pending' = <<>>
    /\ onboarding' = OnboardingInitial(onboarding.build)
    /\ UNCHANGED <<now, ticks, transactions, budgets, dismissed, homeVariant, api,
                   hasLaunched>>

\* checkFirstLaunch, and what the navigator then mounts: the onboarding, or
\* Home with its first load.
checkFirstLaunch ==
    /\ isFirstLaunch = None
    /\ IF hasLaunched = None
       THEN /\ isFirstLaunch' = Some(TRUE)
            /\ screen' = "Onboarding" /\ variant' = onboarding.build
            /\ UNCHANGED home
       ELSE /\ isFirstLaunch' = Some(FALSE)
            /\ screen' = "Home" /\ variant' = homeVariant
            /\ home' = HomeFocus(HomeInitial, transactions, budgets, now)
    /\ UNCHANGED <<stats, now, ticks, transactions, budgets, dismissed, homeVariant, planner,
                   notif, api, dialog, hasLaunched, pending, onboarding>>

\* An onboarding that ends without storing the key.
completeOnboardingUnstored(b) ==
    /\ hasLaunched' = hasLaunched
    /\ isFirstLaunch' = Some(FALSE)
    /\ screen' = "Home" /\ variant' = homeVariant
    /\ home' = HomeFocus(HomeInitial, transactions, b, now)
    /\ onboarding' = OnboardingInitial(onboarding.build)

\* completeOnboarding (the onComplete of the OnboardingScreen): the key is
\* stored and the navigator mounts Home, which loads; b is the budgets entry
\* as the caller left it.
completeOnboarding(b) ==
    /\ hasLaunched' = Some("true")
    /\ isFirstLaunch' = Some(FALSE)
    /\ screen' = "Home" /\ variant' = homeVariant
    /\ home' = HomeFocus(HomeInitial, transactions, b, now)
    /\ onboarding' = OnboardingInitial(onboarding.build)

OnOnboarding == screen = "Onboarding" /\ dialog.kind = "none"

slides == <<1, 2, 3, 4>>

\* handleNext on the slides: the next slide, or the budget setup after the last
handleNext ==
    /\ OnOnboarding /\ ~onboarding.showBudgetSetup
    /\ onboarding' =
         IF onboarding.currentIndex < Len(slides) - 1
         THEN [onboarding EXCEPT !.currentIndex = onboarding.currentIndex + 1]
         ELSE [onboarding EXCEPT !.showBudgetSetup = TRUE]
    /\ UNCHANGED <<stats, now, ticks, transactions, budgets, dismissed, screen, variant,
                   homeVariant, home, planner, notif, api, dialog, hasLaunched,
                   isFirstLaunch, pending>>

\* handleSkip on the slides, 'Skip for now' on the budget setup
handleSkip ==
    /\ OnOnboarding
    /\ completeOnboarding(budgets)
    /\ UNCHANGED <<stats, now, ticks, transactions, budgets, dismissed, homeVariant, planner,
                   notif, api, dialog, pending>>

\* onChangeText of the allowance field
setAmount(text) ==
    /\ OnOnboarding /\ onboarding.showBudgetSetup
    /\ onboarding' = [onboarding EXCEPT !.amount = text]
    /\ UNCHANGED <<stats, now, ticks, transactions, budgets, dismissed, screen, variant,
                   homeVariant, home, planner, notif, api, dialog, hasLaunched,
                   isFirstLaunch, pending>>

\* updateBudget(category, value) of the OnboardingScreen
onboardingUpdateBudget(category, value) ==
    /\ OnOnboarding /\ onboarding.showBudgetSetup
    /\ onboarding' =
         [onboarding EXCEPT
            !.budgets = [k \in DOMAIN onboarding.budgets \cup {category} |->
                            IF k = category THEN value ELSE onboarding.budgets[k]]]
    /\ UNCHANGED <<stats, now, ticks, transactions, budgets, dismissed, screen, variant,
                   homeVariant, home, planner, notif, api, dialog, hasLaunched,
                   isFirstLaunch, pending>>

\* onChangeText of the savings goal field (OnboardingScreen.js only)
setSavingsGoal(text) ==
    /\ OnOnboarding /\ onboarding.showBudgetSetup
    /\ variant = "OnboardingScreen"
    /\ onboarding' = [onboarding EXCEPT !.savingsGoal = text]
    /\ UNCHANGED <<stats, now, ticks, transactions, budgets, dismissed, screen, variant,
                   homeVariant, home, planner, notif, api, dialog, hasLaunched,
                   isFirstLaunch, pending>>

\* handleSaveBudget of OnboardingScreen.js ('Save & Continue'): the allowance
\* is parseFloat(amount) || 0, limits and goal go to the store as typed.
handleSaveBudget ==
    /\ OnOnboarding /\ onboarding.showBudgetSetup
    /\ variant = "OnboardingScreen"
    /\ LET dailyAmount == ParseFloatOrZero(onboarding.amount)
           budgetData == BudgetData(onboarding.budgets,
                                    NumberToString(dailyAmount * 7),
                                    NumberToString(dailyAmount),
                                    OrEmpty(onboarding.savingsGoal))
       IN  /\ budgets' = Some(budgetData)
           /\ completeOnboarding(Some(budgetData))
    /\ UNCHANGED <<stats, now, ticks, transactions, dismissed, homeVariant, planner, notif,
                   api, dialog, pending>>

\* (n).toString() of a parsed number
ParsedToString(pf) == IF pf.nan THEN <<"N", "a", "N">> ELSE NumberToString(pf.val)

\* The onboarding copy that turns no allowance away.
handleSaveBudgetCopyUnchecked ==
    /\ OnOnboarding /\ onboarding.showBudgetSetup
    /\ variant = "OnboardingCopy"
    /\ LET dailyAmount == ParseFloat(onboarding.amount)
           weeklyAmount == [dailyAmount EXCEPT !.val = dailyAmount.val * 7]
           budgetData == BudgetData(onboarding.budgets,
                                    ParsedToString(weeklyAmount),
                                    ParsedToString(dailyAmount), Undefined)
       IN  /\ budgets' = Some(budgetData)
           /\ completeOnboarding(Some(budgetData))
           /\ UNCHANGED dialog
    /\ UNCHANGED <<stats, now, ticks, transactions, dismissed, homeVariant, planner, notif,
                   api, pending>>

\* handleSaveBudget of the copy in NotificationsScreen.js: no amount, or one
\* that parses to 0 or less, is turned away, and so is a plan above the
\* allowance; a comparison with NaN is false.
handleSaveBudgetCopy ==
    /\ OnOnboarding /\ onboarding.showBudgetSetup
    /\ variant = "OnboardingCopy"
    /\ LET dailyAmount == ParseFloat(onboarding.amount)
           weeklyAmount == [dailyAmount EXCEPT !.val = dailyAmount.val * 7]
           totalBudgeted == getTotalBudgeted(onboarding.budgets)
           budgetData == BudgetData(onboarding.budgets,
                                    ParsedToString(weeklyAmount),
                                    ParsedToString(dailyAmount), Undefined)
       IN  IF ~Truthy(onboarding.amount) \/ (~dailyAmount.nan /\ dailyAmount.val <= 0)
           THEN /\ dialog' = ErrorDialog("Please enter your allowance amount")
                /\ UNCHANGED <<budgets, hasLaunched, isFirstLaunch, screen, variant,
                               home, onboarding>>
           ELSE IF ~dailyAmount.nan /\ totalBudgeted > dailyAmount.val
           THEN /\ dialog' = ErrorDialog("Budget Exceeds Allowance")
                /\ UNCHANGED <<budgets, hasLaunched, isFirstLaunch, screen, variant,
                               home, onboarding>>
           ELSE /\ budgets' = Some(budgetData)
                /\ completeOnboarding(Some(budgetData))
                /\ UNCHANGED dialog
    /\ UNCHANGED <<stats, now, ticks, transactions, dismissed, homeVariant, planner, notif,
                   api, pending>>

----------------------------------------------------------------------------
(* SettingsScreen *)

AskDialog(title) == [kind |-> "ask", text |-> title, id |-> <<>>]

\* navigation.navigate('Settings') from Home
OpenSettings ==
    /\ screen = "Home" /\ dialog.kind = "none"
    /\ screen' = "Settings" /\ variant' = "Settings"
    /\ UNCHANGED <<stats, onboarding, hasLaunched, isFirstLaunch, pending, now, ticks, transactions, budgets,
                   dismissed, homeVariant, home, planner, notif, api, dialog>>

\* A row of the Settings list pressed: its confirmation opens.
SettingsAsk(title) ==
    /\ screen = "Settings" /\ dialog.kind = "none"
    /\ dialog' = AskDialog(title)
    /\ UNCHANGED <<stats, onboarding, hasLaunched, isFirstLaunch, pending, now, ticks, transactions, budgets,
                   dismissed, screen, variant, homeVariant, home, planner, notif, api>>

handleClearAllData == SettingsAsk("Clear All Data")

handleClearTransactions == SettingsAsk("Clear Transactions")

handleClearBudgets == SettingsAsk("Clear Budget Settings")

handleResetOnboarding == SettingsAsk("Reset Onboarding")

\* 'Cancel' on a confirmation of the Settings list
SettingsCancelPressed ==
    /\ dialog.kind = "ask"
    /\ dialog' = NoDialog
    /\ UNCHANGED <<stats, onboarding, hasLaunched, isFirstLaunch, pending, now, ticks, transactions, budgets,
                   dismissed, screen, variant, homeVariant, home, planner, notif, api>>

\* A clearing of transactions that takes the budgets along.
ClearTransactionsPressedWide ==
    /\ dialog = AskDialog("Clear Transactions")
    /\ transactions' = None /\ budgets' = None
    /\ dialog' = SuccessDialog("All transactions cleared!")
    /\ UNCHANGED <<stats, onboarding, hasLaunched, isFirstLaunch, pending, now, ticks,
                   dismissed, screen, variant, homeVariant, home, planner, notif, api>>

\* 'Clear' on 'Clear Transactions': removeItem('transactions')
ClearTransactionsPressed ==
    /\ dialog = AskDialog("Clear Transactions")
    /\ transactions' = None
    /\ dialog' = SuccessDialog("All transactions cleared!")
    /\ UNCHANGED <<stats, onboarding, hasLaunched, isFirstLaunch, pending, now, ticks, budgets,
                   dismissed, screen, variant, homeVariant, home, planner, notif, api>>

\* 'Clear' on 'Clear Budget Settings': removeItem('budgets')
ClearBudgetsPressed ==
    /\ dialog = AskDialog("Clear Budget Settings")
    /\ budgets' = None
    /\ dialog' = SuccessDialog("Budget settings cleared!")
    /\ UNCHANGED <<stats, onboarding, hasLaunched, isFirstLaunch, pending, now, ticks, transactions,
                   dismissed, screen, variant, homeVariant, home, planner, notif, api>>

\* 'Reset' on 'Reset Onboarding': removeItem('hasLaunched')
ResetOnboardingPressed ==
    /\ dialog = AskDialog("Reset Onboarding")
    /\ hasLaunched' = None
    /\ dialog' = SuccessDialog("Close and reopen the app to see onboarding")
    /\ UNCHANGED <<stats, onboarding, isFirstLaunch, pending, now, ticks, transactions, budgets,
                   dismissed, screen, variant, homeVariant, home, planner, notif, api>>

\* A clearing that leaves the launch key in the store.
ClearAllPressedKeepingKey ==
    /\ screen = "Settings"
    /\ dialog = AskDialog("Clear All Data")
    /\ transactions' = None /\ budgets' = None /\ dismissed' = None
    /\ hasLaunched' = hasLaunched
    /\ dialog' = SuccessDialog("All data cleared! Please restart the app.")
    /\ UNCHANGED <<stats, onboarding, isFirstLaunch, pending, now, ticks,
                   screen, variant, homeVariant, home, planner, notif, api>>

\* 'Clear All' on 'Clear All Data': AsyncStorage.clear()
ClearAllPressed ==
    /\ screen = "Settings"
    /\ dialog = AskDialog("Clear All Data")
    /\ transactions' = None /\ budgets' = None /\ dismissed' = None
    /\ hasLaunched' = None
    /\ dialog' = SuccessDialog("All data cleared! Please restart the app.")
    /\ UNCHANGED <<stats, onboarding, isFirstLaunch, pending, now, ticks,
                   screen, variant, homeVariant, home, planner, notif, api>>

\* 'Clear All Data' of the menu of Home: its confirmation opens.
HomeClearAllData ==
    /\ screen = "Home" /\ dialog.kind = "none"
    /\ homeVariant \in {"HomeScreen", "HomeScreenEarlier"}
    /\ dialog' = AskDialog("Clear All Data")
    /\ UNCHANGED <<stats, onboarding, hasLaunched, isFirstLaunch, pending, now, ticks,
                   transactions, budgets, dismissed, screen, variant, homeVariant,
                   home, planner, notif, api>>

\* 'Clear All' on it: AsyncStorage.clear(), the Alert, and in HomeScreen.js
\* loadData(); the earlier HomeScreen does not load again.
HomeClearAllPressed ==
    /\ screen = "Home"
    /\ dialog = AskDialog("Clear All Data")
    /\ transactions' = None /\ budgets' = None /\ dismissed' = None
    /\ hasLaunched' = None
    /\ dialog' = SuccessDialog("All data cleared!")
    /\ home' = IF homeVariant = "HomeScreen" THEN loadData(home, None, None, now)
               ELSE home
    /\ UNCHANGED <<stats, onboarding, isFirstLaunch, pending, now, ticks,
                   screen, variant, homeVariant, planner, notif, api>>

----------------------------------------------------------------------------
(* NotificationsScreen *)

HourMs == 60 * 60 * 1000

\* new Date(t).getHours(), the clock having started at a local midnight
Hours(t) == (t % DayMs) \div HourMs

\* new Date(t).getDay(): 0 is Sunday; the clock's day 0 is a Thursday, as the
\* first day of the epoch is
DayOfWeek(t) == ((t \div DayMs) + 4) % 7

Notification(id, type, priority, remaining) ==
    [id |-> id, type |-> type, priority |-> priority, remaining |-> remaining]

\* The alert with its upper threshold strict: at exactly 100 % a warning.
BudgetAlertAbove100(key, budget, spent) ==
    LET weeklyBudgetAmount == ParseFloatOrZero(budget) * 7
        remaining == weeklyBudgetAmount - spent
    IN  IF weeklyBudgetAmount > 0
        THEN IF 100 * spent > 100 * weeklyBudgetAmount
             THEN <<Notification(<<"over-", key>>, "alert", "high", remaining)>>
             ELSE IF 100 * spent >= 80 * weeklyBudgetAmount
             THEN <<Notification(<<"warning-", key>>, "warning", "medium", remaining)>>
             ELSE <<>>
        ELSE <<>>

\* The alert of one budget entry, as a list of 0 or 1 notification: the stored
\* limit is a daily figure, percentage = spent / weeklyBudgetAmount * 100.
BudgetAlert(key, budget, spent) ==
    LET dailyBudgetAmount == ParseFloatOrZero(budget)
        weeklyBudgetAmount == dailyBudgetAmount * 7
        remaining == weeklyBudgetAmount - spent
    IN  IF dailyBudgetAmount > 0
        THEN IF 100 * spent >= 100 * weeklyBudgetAmount
             THEN <<Notification(<<"over-", key>>, "alert", "high", remaining)>>
             ELSE IF 100 * spent >= 80 * weeklyBudgetAmount
             THEN <<Notification(<<"warning-", key>>, "warning", "medium", remaining)>>
             ELSE <<>>
        ELSE <<>>

RECURSIVE Flatten(_)
Flatten(ss) == IF ss = <<>> THEN <<>> ELSE Head(ss) \o Flatten(Tail(ss))

\* calculateTrackingStreak: consecutive days, today backwards, with a transaction
RECURSIVE StreakFrom(_, _, _)
StreakFrom(txns, at, i) ==
    IF i >= 30 THEN 0
    ELSE LET checkDate == StartOfDay(at) - i * DayMs
             nextDay == checkDate + DayMs
         IN  IF \E j \in 1..Len(txns) :
                    txns[j].timestamp >= checkDate /\ txns[j].timestamp < nextDay
             THEN 1 + StreakFrom(txns, at, i + 1)
             ELSE 0

calculateTrackingStreak(txns, at) == StreakFrom(txns, at, 0)

PriorityRank(p) == CASE p = "high" -> 3 [] p = "medium" -> 2 [] p = "low" -> 1

\* The list as it was built, in the order of its pushes.
Unsorted(ns) == ns

\* Array.prototype.sort with (a, b) => priority[b.priority] - priority[a.priority]:
\* a stable sort, highest priority first
SortByPriority(ns) ==
    SelectSeq(ns, LAMBDA n : n.priority = "high")
    \o SelectSeq(ns, LAMBDA n : n.priority = "medium")
    \o SelectSeq(ns, LAMBDA n : n.priority = "low")

\* The list generateNotifications builds before it filters and sorts.
GeneratedNotifications(txns, b, at) ==
    LET weeklySpending == weeklySpendingBy(SixKeyMapping, txns, at)
        cats == b.categories
        entries == EntriesOf(cats)
        alerts ==
            Flatten([i \in 1..Len(entries) |->
                BudgetAlert(entries[i], cats[entries[i]],
                            SpentOn(weeklySpending, entries[i]))])
        today == StartOfDay(at)
        Today(t) == t.type = "expense" /\ t.timestamp >= today
        todaySpending == SumSeq(SelectAmounts(txns, Today))
        dailyAllowance == ParseFloatOrZero(b.dailyAllowance)
        highDaily ==
            IF dailyAllowance > 0 THEN 10 * todaySpending > 8 * dailyAllowance
            ELSE todaySpending > 200
        hasTransactionToday == \E i \in 1..Len(txns) : txns[i].timestamp >= today
        weeklyAllowance == ParseFloatOrZero(b.weeklyAllowance)
        savingsPotential == weeklyAllowance - weeklySpentOf(txns, at)
        Weekend(t) ==
            t.type = "expense" /\ DayOfWeek(t.timestamp) \in {5, 6}
        weekendSpending == SumSeq(SelectAmounts(txns, Weekend))
    IN  alerts
        \o (IF highDaily
            THEN <<Notification(<<"high-daily">>, "info", "medium", 0)>> ELSE <<>>)
        \o (IF ~hasTransactionToday /\ Hours(at) > 16
            THEN <<Notification(<<"no-tracking">>, "reminder", "low", 0)>> ELSE <<>>)
        \o (IF weeklyAllowance > 0
            THEN IF savingsPotential > 0 /\ 10 * savingsPotential < weeklyAllowance
                 THEN <<Notification(<<"low-savings">>, "tip", "medium", 0)>>
                 ELSE IF 10 * savingsPotential > 2 * weeklyAllowance
                 THEN <<Notification(<<"good-savings">>, "success", "low", 0)>>
                 ELSE <<>>
            ELSE <<>>)
        \o (IF DayOfWeek(at) \in {5, 6} /\ 2 * weekendSpending > 3 * dailyAllowance
            THEN <<Notification(<<"weekend-spending">>, "warning", "medium", 0)>>
            ELSE <<>>)
        \o (IF calculateTrackingStreak(txns, at) >= 7
            THEN <<Notification(<<"tracking-streak">>, "success", "low", 0)>>
            ELSE <<>>)

\* The list sorted with nothing filtered out.
generateNotificationsUnfiltered(txns, b, ids, at) ==
    SortByPriority(GeneratedNotifications(txns, b, at))

\* generateNotifications: the list it hands to setNotifications
generateNotifications(txns, b, ids, at) ==
    SortByPriority(SelectSeq(GeneratedNotifications(txns, b, at),
                             LAMBDA n : \A i \in 1..Len(ids) : ids[i] # n.id))

\* The savings-rate insight of generateInsights, as a list of 0 or 1 insight;
\* type holds the band its tip is chosen by.
SavingsRateInsight(weeklyAllowance, weeklySpent) ==
    LET saved == weeklyAllowance - weeklySpent
    IN  IF weeklyAllowance > 0
        THEN <<Insight(IF 100 * saved >= 20 * weeklyAllowance THEN "excellent"
                       ELSE IF saved >= 0 THEN "low" ELSE "danger",
                       IF saved >= 0 THEN "Savings Rate" ELSE "Overspending", "")>>
        ELSE <<>>

\* generateInsights
generateInsights(txns, b, at) ==
    LET Keep(t) == InWeek(t, at)
        weeklyTxns == SelectSeq(txns, Keep)
        labels == {weeklyTxns[i].category : i \in 1..Len(weeklyTxns)}
        Total(c) == SumSeq(SelectAmounts(weeklyTxns, LAMBDA t : t.category = c))
        First(c) == CHOOSE i \in 1..Len(weeklyTxns) :
                        /\ weeklyTxns[i].category = c
                        /\ \A j \in 1..(i - 1) : weeklyTxns[j].category # c
        \* .sort(([, a], [, b]) => b - a)[0]: the largest total, the earliest
        \* inserted among equals
        top == CHOOSE c \in labels :
                  \A d \in labels :
                      Total(c) > Total(d) \/ (Total(c) = Total(d) /\ First(c) <= First(d))
        weeklySpent == SumSeq([i \in 1..Len(weeklyTxns) |-> weeklyTxns[i].amount])
        spendingDays == {StartOfDay(weeklyTxns[i].timestamp) : i \in 1..Len(weeklyTxns)}
    IN  (IF labels # {} THEN <<Insight("top", "Top Spending Category", top)>> ELSE <<>>)
        \o <<Insight(IF weeklySpent > 700 THEN "high" ELSE "low", "Daily Average", "")>>
        \o SavingsRateInsight(ParseFloatOrZero(b.weeklyAllowance), weeklySpent)
        \o <<Insight(IF Cardinality(spendingDays) >= 5 THEN "often" ELSE "spaced",
                     "Spending Frequency", "")>>
        \o (IF Cardinality(labels) > 1
            THEN <<Insight(IF 100 * Total(top) > 50 * weeklySpent THEN "concentrated"
                           ELSE "balanced", "Spending Distribution", top)>>
            ELSE <<>>)

\* budgetData ? JSON.parse(budgetData) : { categories: {}, weeklyAllowance: 0 }
\* (parseFloat of the number 0 is 0: the text "0" stands for it)
BudgetsOrDefault(b) ==
    IF IsSome(b) THEN b[1] ELSE BudgetData(EmptyObject, <<"0">>, Undefined, Undefined)

\* loadNotifications: the React state after it ran at time at
loadNotifications(stored, b, dismissedStored, at) ==
    LET txns == ParsedOrEmpty(stored)
        bd == BudgetsOrDefault(b)
        ids == ParsedOrEmpty(dismissedStored)
    IN  [notifications |-> generateNotifications(txns, bd, ids, at),
         generated |-> GeneratedNotifications(txns, bd, at),
         insights |-> generateInsights(txns, bd, at),
         dismissedNotifications |-> ids, at |-> at]

\* navigation.navigate('Notifications') from Home: the mount effect loads
OpenNotifications ==
    /\ screen = "Home" /\ dialog.kind = "none"
    /\ screen' = "Notifications" /\ variant' = "Notifications"
    /\ notif' = loadNotifications(transactions, budgets, dismissed, now)
    /\ UNCHANGED <<stats, onboarding, hasLaunched, isFirstLaunch, pending, now, ticks, transactions, budgets, dismissed, homeVariant,
                   home, planner, api, dialog>>

\* A refresh that writes the list it parsed back to the store.
onRefreshStoring ==
    /\ screen = "Notifications" /\ dialog.kind = "none"
    /\ notif' = loadNotifications(transactions, budgets, dismissed, now)
    /\ transactions' = Some(ParsedOrEmpty(transactions))
    /\ UNCHANGED <<stats, onboarding, hasLaunched, isFirstLaunch, pending, now, ticks, budgets, dismissed, screen, variant,
                   homeVariant, home, planner, api, dialog>>

\* onRefresh (pull to refresh)
onRefresh ==
    /\ screen = "Notifications" /\ dialog.kind = "none"
    /\ notif' = loadNotifications(transactions, budgets, dismissed, now)
    /\ UNCHANGED <<stats, onboarding, hasLaunched, isFirstLaunch, pending, now, ticks, transactions, budgets, dismissed, screen, variant,
                   homeVariant, home, planner, api, dialog>>

\* prev.filter(notif => notif.id !== notificationId)
WithoutId(ns, id) == SelectSeq(ns, LAMBDA n : n.id # id)

\* The ids of the notifications on display
DisplayedIds(ns) == [i \in 1..Len(ns) |-> ns[i].id]

\* dismissNotification(notificationId), its write resuming before anything else
\* is pressed: the id is appended to the list in the state, the list is stored
\* and set, and the notification leaves the display.
dismissNotification(notificationId) ==
    /\ screen = "Notifications" /\ dialog.kind = "none"
    /\ \E i \in 1..Len(notif.notifications) :
           notif.notifications[i].id = notificationId
    /\ LET updatedDismissed == Append(notif.dismissedNotifications, notificationId)
       IN  /\ dismissed' = Some(updatedDismissed)
           /\ notif' = [notif EXCEPT
                          !.dismissedNotifications = updatedDismissed,
                          !.notifications = WithoutId(notif.notifications,
                                                      notificationId)]
    /\ UNCHANGED <<stats, onboarding, hasLaunched, isFirstLaunch, pending, now, ticks,
                   transactions, budgets, screen, variant, homeVariant, home,
                   planner, api, dialog>>

\* dismissNotification up to its await: the id is appended to the list the
\* state holds at the press, and setItem is issued with it.
dismissNotificationBegin(notificationId) ==
    /\ screen = "Notifications" /\ dialog.kind = "none"
    /\ \E i \in 1..Len(notif.notifications) :
           notif.notifications[i].id = notificationId
    /\ Begun("dismiss") < MaxDismissals
    /\ pending' = Append(pending,
                         Op("dismiss", "setItem", notificationId, None,
                            Append(notif.dismissedNotifications, notificationId)))
    /\ UNCHANGED <<stats, onboarding, hasLaunched, isFirstLaunch, now, ticks,
                   transactions, budgets, dismissed, screen, variant, homeVariant,
                   home, planner, notif, api, dialog>>

\* await AsyncStorage.setItem('dismissedNotifications', ...) resumes: the list
\* the handler holds is the stored list; it is set as the state and the
\* notification leaves the display, if the screen is still mounted.
dismissSetItemResolves(i) ==
    /\ i \in 1..Len(pending)
    /\ pending[i].op = "dismiss" /\ pending[i].pc = "setItem"
    /\ dismissed' = Some(pending[i].list)
    /\ pending' = [pending EXCEPT ![i].pc = "done"]
    /\ notif' = IF pending[i].mounted
                THEN [notif EXCEPT
                        !.dismissedNotifications = pending[i].list,
                        !.notifications = WithoutId(notif.notifications,
                                                    pending[i].id)]
                ELSE notif
    /\ UNCHANGED <<stats, onboarding, hasLaunched, isFirstLaunch, now, ticks,
                   transactions, budgets, screen, variant, homeVariant, home,
                   planner, api, dialog>>

\* clearAllNotifications: its confirmation opens
clearAllNotifications ==
    /\ screen = "Notifications" /\ dialog.kind = "none"
    /\ dialog' = AskDialog("Clear All Notifications")
    /\ UNCHANGED <<stats, onboarding, hasLaunched, isFirstLaunch, pending, now, ticks,
                   transactions, budgets, dismissed, screen, variant, homeVariant,
                   home, planner, notif, api>>

\* 'Clear All' on it: every id on display is appended, stored and set
ClearAllNotificationsPressed ==
    /\ dialog = AskDialog("Clear All Notifications")
    /\ LET updatedDismissed ==
               notif.dismissedNotifications \o DisplayedIds(notif.notifications)
       IN  /\ dismissed' = Some(updatedDismissed)
           /\ notif' = [notif EXCEPT !.dismissedNotifications = updatedDismissed,
                                     !.notifications = <<>>]
    /\ dialog' = NoDialog
    /\ UNCHANGED <<stats, onboarding, hasLaunched, isFirstLaunch, pending, now, ticks,
                   transactions, budgets, screen, variant, homeVariant, home,
                   planner, api>>

----------------------------------------------------------------------------
(* The backend: the Budget row, the Transaction rows, three of its routes *)

ApiKeys == <<"transportation", "food", "supplies", "load", "projects", "savings">>

Response(route, status, body) == <<[route |-> route, status |-> status, body |-> body]>>

\* POST /api/budget: every column is parseFloat(field) || 0; a field the body
\* lacks reads as Undefined.
ApiPostBudget(body) ==
    /\ api' = [api EXCEPT
                !.budget = Some([k \in {"weeklyAllowance"} \cup {ApiKeys[i] : i \in 1..Len(ApiKeys)}
                                  |-> ParseFloatOrZero(Lookup(body, k))]),
                !.request = NoRequest,
                !.response = Response("budget", 200, <<>>),
                !.at = now]
    /\ UNCHANGED <<stats, onboarding, hasLaunched, isFirstLaunch, pending, now, ticks, transactions, budgets, dismissed, screen, variant,
                   homeVariant, home, planner, notif, dialog>>

\* req.body of POST /api/transactions
ApiBody(title, amount, type, category, timestamp) ==
    [NoRequest EXCEPT !.title = title, !.amount = amount, !.type = type,
                      !.category = category, !.timestamp = timestamp]

\* POST /api/transactions: 400 when a required field is missing, else the row is
\* created with amount parseFloat(amount) and the body's timestamp.
ApiPostTransaction(title, amount, type, category, timestamp) ==
    /\ Len(api.rows) < MaxTxns
    /\ IF ~Truthy(title) \/ ~Truthy(amount) \/ timestamp = 0
       THEN api' = [api EXCEPT !.request = ApiBody(title, amount, type, category, timestamp),
                                !.response = Response("transactions", 400, <<>>),
                                !.at = now]
       ELSE api' = [api EXCEPT
                     !.request = ApiBody(title, amount, type, category, timestamp),
                     !.rows = Append(api.rows,
                                [id |-> <<"row", Len(api.rows)>>, title |-> title,
                                 amount |-> ParseFloatOrZero(amount), type |-> type,
                                 category |-> category, timestamp |-> timestamp]),
                     !.response = Response("transactions", 201, <<>>),
                     !.at = now]
    /\ UNCHANGED <<stats, onboarding, hasLaunched, isFirstLaunch, pending, now, ticks, transactions, budgets, dismissed, screen, variant,
                   homeVariant, home, planner, notif, dialog>>

\* The notifications of GET /api/notifications: a stored limit is compared as it
\* stands, percentage = spent / budgetAmount * 100.
ApiNotifications(budget, rows, at) ==
    LET weeklySpending == weeklySpendingBy(SixKeyMapping, rows, at)
        Warns(key) ==
            budget[key] > 0 /\ 100 * SpentOn(weeklySpending, key) >= 80 * budget[key]
        keys == SelectSeq(ApiKeys, Warns)
    IN  [i \in 1..Len(keys) |->
            LET spent == SpentOn(weeklySpending, keys[i])
            IN  [type |-> IF 100 * spent >= 100 * budget[keys[i]] THEN "alert" ELSE "warning",
                 category |-> keys[i], spent |-> spent, budget |-> budget[keys[i]],
                 remaining |-> budget[keys[i]] - spent]]

\* GET /api/notifications
ApiGetNotifications ==
    /\ api' = [api EXCEPT
                !.request = NoRequest,
                !.response =
                    Response("notifications", 200,
                             IF IsSome(api.budget)
                             THEN ApiNotifications(api.budget[1], api.rows, now)
                             ELSE <<>>),
                !.at = now]
    /\ UNCHANGED <<stats, onboarding, hasLaunched, isFirstLaunch, pending, now, ticks, transactions, budgets, dismissed, screen, variant,
                   homeVariant, home, planner, notif, dialog>>

\* A lookup by identifier that answers a missing row like a wrong request.
ApiGetTransactionBadRequest(id, found) ==
    /\ api' = [api EXCEPT
                !.request = [NoRequest EXCEPT !.id = id],
                !.response =
                    IF ~found THEN Response("transaction", 500, <<>>)
                    ELSE IF ~\E i \in 1..Len(api.rows) : api.rows[i].id = id
                    THEN Response("transaction", 400, <<>>)
                    ELSE Response("transaction", 200, <<>>),
                !.at = now]
    /\ UNCHANGED <<stats, onboarding, hasLaunched, isFirstLaunch, pending, now, ticks, transactions, budgets, dismissed, screen, variant,
                   homeVariant, home, planner, notif, dialog>>

\* GET /api/transactions/:id; found tells whether findUnique resolved (it
\* throws when the database cannot be asked).
ApiGetTransaction(id, found) ==
    /\ api' = [api EXCEPT
                !.request = [NoRequest EXCEPT !.id = id],
                !.response =
                    IF ~found THEN Response("transaction", 500, <<>>)
                    ELSE IF ~\E i \in 1..Len(api.rows) : api.rows[i].id = id
                    THEN Response("transaction", 404, <<>>)
                    ELSE Response("transaction", 200, <<>>),
                !.at = now]
    /\ UNCHANGED <<stats, onboarding, hasLaunched, isFirstLaunch, pending, now, ticks, transactions, budgets, dismissed, screen, variant,
                   homeVariant, home, planner, notif, dialog>>

Periods == {"daily", "weekly", "monthly"}

\* startDate of GET /api/statistics/:period. A month back is more than three
\* weeks back, before every row the clock of the model can give.
StartDate(period, at) ==
    CASE period = "daily" -> StartOfDay(at)
      [] period = "weekly" -> at - WeekMs
      [] period = "monthly" -> at - 3 * WeekMs

\* GET /api/statistics/:period; found tells whether findMany resolved.
ApiGetStatistics(period, found) ==
    /\ api' = [api EXCEPT
                !.request = [NoRequest EXCEPT !.period = period],
                !.response =
                    IF period \notin Periods THEN Response("statistics", 400, <<>>)
                    ELSE IF ~found THEN Response("statistics", 500, <<>>)
                    ELSE LET IsIn(t) == t.timestamp >= StartDate(period, now)
                             rows == SelectSeq(api.rows, IsIn)
                             Spent(t) == t.type = "expense"
                             Income(t) == t.type # "expense"
                         IN  Response("statistics", 200,
                                      <<[totalSpent |-> SumSeq(SelectAmounts(rows, Spent)),
                                         totalIncome |-> SumSeq(SelectAmounts(rows, Income)),
                                         transactionCount |-> Len(rows)]>>),
                !.at = now]
    /\ UNCHANGED <<stats, onboarding, hasLaunched, isFirstLaunch, pending, now, ticks, transactions, budgets, dismissed, screen, variant,
                   homeVariant, home, planner, notif, dialog>>

\* The catch of POST /api/transactions: the body passed the check for missing
\* fields and prisma.transaction.create threw.
ApiPostTransactionThrows(title, amount, type, category, timestamp) ==
    /\ Truthy(title) /\ Truthy(amount) /\ timestamp # 0
    /\ api' = [api EXCEPT !.request = ApiBody(title, amount, type, category, timestamp),
                          !.response = Response("transactions", 500, <<>>),
                          !.at = now]
    /\ UNCHANGED <<stats, onboarding, hasLaunched, isFirstLaunch, pending, now, ticks, transactions, budgets, dismissed, screen, variant,
                   homeVariant, home, planner, notif, dialog>>

\* The catch of POST /api/budget and of GET /api/notifications: the database
\* call threw.
ApiThrows(route) ==
    /\ api' = [api EXCEPT !.request = NoRequest,
                          !.response = Response(route, 500, <<>>),
                          !.at = now]
    /\ UNCHANGED <<stats, onboarding, hasLaunched, isFirstLaunch, pending, now, ticks, transactions, budgets, dismissed, screen, variant,
                   homeVariant, home, planner, notif, dialog>>

----------------------------------------------------------------------------
(* The store: adding and deleting transactions *)

HomeVariants == {"HomeScreen", "HomeScreenEarlier"}

InitWith(configs, homes) ==
    /\ now = 0 /\ ticks = 0
    /\ transactions = None /\ dismissed = None
    /\ budgets \in configs
    /\ homeVariant \in homes
    /\ screen = "Home" /\ variant = homeVariant
    /\ home = HomeFocus(HomeInitial, None, budgets, 0)
    /\ planner = PlannerInitial /\ notif = NotifInitial /\ api = ApiInitial
    /\ dialog = NoDialog
    /\ hasLaunched = Some("true") /\ isFirstLaunch = Some(FALSE)
    /\ pending = <<>>
    /\ onboarding = OnboardingInitial("OnboardingScreen")
    /\ stats = StatsInitial

Sp == " "
TitleInputs == {<<>>, <<Sp>>, <<"x">>}
AmountInputs == {<<>>, <<"a">>, <<"0">>, <<"-", "5">>, <<"5">>, <<"5", "a">>}
StoreLabels == {"Food & Snacks", "Allowance"}

Init == InitWith({None}, HomeVariants)

Next ==
    \/ Tick(1)
    \/ \E v \in {"Add1", "Add2", "Add3"} : OpenAddTransaction(v)
    \/ \E t \in TitleInputs, a \in AmountInputs, ty \in {"expense", "income"},
          c \in categories1 \cap StoreLabels : handleSave1(t, a, ty, c)
    \/ \E t \in TitleInputs, a \in AmountInputs, c \in categories2 \cap StoreLabels :
          handleSave2(t, a, c)
    \/ \E t \in TitleInputs, a \in AmountInputs, c \in categories3 \cap StoreLabels :
          handleSave3(t, a, c)
    \/ DismissDialog
    \/ GoBack
    \/ \E i \in 1..Len(home.transactions) :
          handleDeleteTransaction(home.transactions[i].id)
    \/ DeletePressed
    \/ CancelPressed

Spec == Init /\ [][Next]_vars

----------------------------------------------------------------------------
(* The aggregation: the screens computing over stored transactions *)

Txt(n) == NumberToString(n)

\* Stored configurations with a food limit, as the onboarding and planner saves
\* write them: a daily allowance of 100, a weekly one of 700.
AggConfigs ==
    { Some(BudgetData([k \in {"food"} |-> Txt(50)], Txt(700), Txt(100), <<>>)),
      Some(BudgetData([k \in {"food"} |-> Txt(100)], Txt(700), Txt(100), Txt(50))) }

\* What the form of the first AddTransactionScreen is filled with.
AggEntries ==
    { <<Txt(280), "expense", "Food & Snacks">>,
      <<Txt(350), "expense", "Food & Snacks">>,
      <<Txt(400), "expense", "Food & Snacks">>,
      <<Txt(300), "expense", "Other">>,
      <<Txt(300), "income", "Allowance">> }

InitAgg == InitWith(AggConfigs, HomeVariants)

NextAgg ==
    \/ \E d \in TickSteps : Tick(d)
    \/ OpenAddTransaction("Add1")
    \/ \E e \in AggEntries : handleSave1(<<"x">>, e[1], e[2], e[3])
    \/ DismissDialog
    \/ GoBack
    \/ \E v \in {"Planner", "Planner0", "Planner1"} : OpenBudgetPlanner(v)
    \/ \E text \in {Txt(100)} : setWeeklyAllowance(text)
    \/ OpenNotifications
    \/ onRefresh

SpecAgg == InitAgg /\ [][NextAgg]_vars

----------------------------------------------------------------------------
(* The same screens over configurations that lack a usable food limit *)

\* Nothing stored; a limit of zero; a limit that is not a number; a limit left
\* blank; no entry for the category.
UnsetConfigs ==
    { None,
      Some(BudgetData([k \in {"food"} |-> Txt(0)], Txt(0), Txt(0), <<>>)),
      Some(BudgetData([k \in {"food"} |-> <<"a", "b">>], Txt(700), Undefined, Undefined)),
      Some(BudgetData([k \in {"food"} |-> <<>>], Txt(700), Txt(100), <<>>)),
      Some(BudgetData(EmptyObject, Txt(700), Txt(100), Txt(50))) }

InitUnset == InitWith(UnsetConfigs, {"HomeScreen"})

SpecUnset == InitUnset /\ [][NextAgg]_vars

----------------------------------------------------------------------------
(* One limit, three readers: the dashboard, the planner and the backend *)

UnitsConfigs ==
    { Some(BudgetData([k \in {"food"} |-> Txt(100)], Txt(700), Txt(100), <<>>)) }

\* The body the client posts for that configuration.
UnitsBodies ==
    { [k \in {"weeklyAllowance", "food"} |->
          IF k = "food" THEN Txt(100) ELSE Txt(700)] }

UnitsEntries == { <<Txt(280), "expense", "Food & Snacks">> }

InitUnits == InitWith(UnitsConfigs, {"HomeScreen"})

NextUnits ==
    \/ Tick(1)
    \/ OpenAddTransaction("Add1")
    \/ \E e \in UnitsEntries : handleSave1(<<"x">>, e[1], e[2], e[3])
    \/ DismissDialog
    \/ GoBack
    \/ \E v \in {"Planner", "Planner0"} : OpenBudgetPlanner(v)
    \/ \E body \in UnitsBodies : ApiPostBudget(body)
    \/ \E e \in UnitsEntries : ApiPostTransaction(<<"x">>, e[1], e[2], e[3], now)
    \/ ApiGetNotifications

SpecUnits == InitUnits /\ [][NextUnits]_vars

----------------------------------------------------------------------------
(* Properties of the store *)

StoredList == ParsedOrEmpty(transactions)

FixedLabels == categories1 \cup categories2 \cup categories3

\* C9: after any sequence of add-transaction and delete-transaction
\* operations every stored transaction has amount > 0, a kind that is expense
\* or income, and a category from the fixed label set.
StoredTransactionsWellFormed ==
    \A i \in 1..Len(StoredList) :
        /\ StoredList[i].amount > 0
        /\ StoredList[i].type \in {"expense", "income"}
        /\ StoredList[i].category \in FixedLabels

\* Two saves have stored an income and an expense, the older one after the
\* clock had advanced.
WitnessStoredIncomeAndExpense ==
    /\ Len(StoredList) = 2
    /\ \E i, j \in 1..2 : StoredList[i].type = "income" /\ StoredList[j].type = "expense"
    /\ StoredList[2].timestamp > 0

\* C10: no two transactions in the stored list have the same identifier.
StoredIdsUnique ==
    \A i, j \in 1..Len(StoredList) :
        StoredList[i].id = StoredList[j].id => i = j

----------------------------------------------------------------------------
(* Properties of the aggregation *)

\* The yardstick of the properties below: the expenses of a list whose
\* timestamp is not before the cutoff  at - 7 days,  and their amounts added up.
Cutoff(at) == at - WindowDays * 24 * 60 * 60 * 1000

TrailingExpenses(txns, at) ==
    {i \in 1..Len(txns) : txns[i].type = "expense" /\ txns[i].timestamp >= Cutoff(at)}

RECURSIVE AmountsAt(_, _)
AmountsAt(txns, idx) ==
    IF idx = {} THEN 0
    ELSE LET i == CHOOSE x \in idx : TRUE
         IN  txns[i].amount + AmountsAt(txns, idx \ {i})

TrailingTotal(txns, at) == AmountsAt(txns, TrailingExpenses(txns, at))

\* The trailing spend under the labels that a screen files under one key.
TrailingOn(mapping, key, txns, at) ==
    AmountsAt(txns, {i \in TrailingExpenses(txns, at) :
                        getCategoryKey(mapping, txns[i].category) = key})

HomeTable == weeklySpendingBy(HomeMapping, home.transactions, home.at)

\* C1: for the stored list and the time of evaluation, the per-category trailing
\* spends add up, over all category keys, to the sum of the amounts of all
\* expenses in the trailing 7-day window, on the Home dashboard and on the
\* planner: an expense under a label outside the label-to-key table is counted
\* too, in one bucket.
CategorySpendSumsToTotal ==
    /\ homeVariant = "HomeScreen" =>
          /\ SumOver(HomeTable, DOMAIN HomeTable) = home.spentThisWeek
          /\ home.spentThisWeek = TrailingTotal(home.transactions, home.at)
    /\ screen = "BudgetPlanner" =>
          getTotalSpent(planner.spending) = TrailingTotal(StoredList, planner.at)

\* The planner shows a food bucket and the bucket of the labels outside the
\* table, over a stored expense of each.
WitnessTwoBuckets ==
    /\ screen = "BudgetPlanner" /\ variant = "Planner"
    /\ DOMAIN planner.spending = {"food", "other"}
    /\ \E i \in 1..Len(StoredList) : StoredList[i].category = "Other"

\* C2: with cutoff = now - 7 days, an expense whose timestamp equals the cutoff
\* is counted in the trailing window and one whose timestamp is 1 ms before the
\* cutoff is not: the dashboard's weekly spend is the sum over the expenses
\* after the cutoff and those on it, and the budget alert of the notifications
\* is computed from that same spend.
CutoffIsInclusive ==
    /\ homeVariant = "HomeScreen" =>
          LET txns == home.transactions
              After == {i \in 1..Len(txns) : txns[i].type = "expense"
                                             /\ txns[i].timestamp > Cutoff(home.at)}
              On == {i \in 1..Len(txns) : txns[i].type = "expense"
                                          /\ txns[i].timestamp = Cutoff(home.at)}
          IN  home.spentThisWeek = AmountsAt(txns, After) + AmountsAt(txns, On)
    /\ (screen = "Notifications" /\ IsSome(budgets)) =>
          LET limit == 7 * ParseFloatOrZero(Lookup(budgets[1].categories, "food"))
              On == {i \in 1..Len(StoredList) :
                        /\ StoredList[i].type = "expense"
                        /\ StoredList[i].category = "Food & Snacks"
                        /\ StoredList[i].timestamp = Cutoff(notif.at)}
              Before == {i \in 1..Len(StoredList) :
                            StoredList[i].timestamp < Cutoff(notif.at)}
          IN  \A n \in 1..Len(notif.generated) :
                  notif.generated[n].id \in {<<"over-", "food">>, <<"warning-", "food">>}
                  => /\ limit - notif.generated[n].remaining
                          >= AmountsAt(StoredList, On)
                     /\ limit - notif.generated[n].remaining
                          = AmountsAt(StoredList,
                                      {i \in 1..Len(StoredList) \ Before :
                                          /\ StoredList[i].type = "expense"
                                          /\ StoredList[i].category = "Food & Snacks"})

\* The dashboard was loaded exactly 7 days after one expense and 7 days and
\* 1 ms after another: its weekly spend is the amount of the first alone.
WitnessOnAndBeforeCutoff ==
    /\ homeVariant = "HomeScreen" /\ screen = "Home"
    /\ Len(home.transactions) = 2
    /\ home.transactions[1].type = "expense" /\ home.transactions[2].type = "expense"
    /\ home.transactions[1].timestamp = Cutoff(home.at)
    /\ home.transactions[2].timestamp = Cutoff(home.at) - 1
    /\ home.spentThisWeek = home.transactions[1].amount

\* The allowance the stored configuration gives for a week.
ConfiguredWeeklyAllowance ==
    IF IsSome(budgets) THEN ParseFloatOrZero(budgets[1].weeklyAllowance) ELSE 0

\* C3: in each Home dashboard variant the available balance is the configured
\* weekly allowance minus the sum of the amounts of the expenses inside the
\* trailing 7-day window; incomes and expenses older than the window do not
\* change it.
BalanceIsAllowanceLessTrailingSpend ==
    home.balance = ConfiguredWeeklyAllowance
                     - TrailingTotal(home.transactions, home.at)

\* The band of a trailing spend against a weekly limit, by
\* percentage = spend / weekly limit * 100 with the thresholds 80 and 100.
AlertBand(spend, weeklyLimit) ==
    IF 100 * spend >= 100 * weeklyLimit THEN "over"
    ELSE IF 100 * spend >= 80 * weeklyLimit THEN "near"
    ELSE "none"

\* The positions of a list that satisfy a test.
Where(list, Test(_)) == {n \in 1..Len(list) : Test(list[n])}

\* C4: for each category with a configured non-zero limit the alert band is
\* fixed by percentage = trailing spend / weekly limit * 100: at 100 or more
\* exactly one over-budget alert (with remaining = weekly limit - spend), from
\* 80 up to 100 exactly one near-limit warning, below 80 none -- in the list the
\* notifications screen generates and in the dashboard's warning list.
AlertBandsByPercentage ==
    IsSome(budgets) =>
        \A k \in DOMAIN budgets[1].categories :
            LET weeklyLimit == 7 * ParseFloatOrZero(budgets[1].categories[k])
            IN  weeklyLimit > 0 =>
                /\ screen = "Notifications" =>
                      LET spend == TrailingOn(SixKeyMapping, k, StoredList, notif.at)
                          over == Where(notif.generated, LAMBDA n : n.id = <<"over-", k>>)
                          near == Where(notif.generated, LAMBDA n : n.id = <<"warning-", k>>)
                      IN  CASE AlertBand(spend, weeklyLimit) = "over" ->
                                  /\ Cardinality(over) = 1 /\ near = {}
                                  /\ \A n \in over :
                                        /\ notif.generated[n].type = "alert"
                                        /\ notif.generated[n].remaining = weeklyLimit - spend
                            [] AlertBand(spend, weeklyLimit) = "near" ->
                                  /\ Cardinality(near) = 1 /\ over = {}
                                  /\ \A n \in near : notif.generated[n].type = "warning"
                            [] OTHER -> over = {} /\ near = {}
                /\ homeVariant = "HomeScreen" =>
                      LET spend == TrailingOn(HomeMapping, k, home.transactions, home.at)
                          mine == Where(home.budgetWarnings,
                                        LAMBDA w : w.category = HomeLabel(k))
                      IN  CASE AlertBand(spend, weeklyLimit) = "over" ->
                                  /\ Cardinality(mine) = 1
                                  /\ \A n \in mine : home.budgetWarnings[n].isOver
                            [] AlertBand(spend, weeklyLimit) = "near" ->
                                  /\ Cardinality(mine) = 1
                                  /\ \A n \in mine : ~home.budgetWarnings[n].isOver
                            [] OTHER -> mine = {}

\* The example: a daily food limit of 50 (weekly 350) and a trailing spend of
\* 400; the notifications screen holds the over-budget alert with remaining -50.
WitnessOverBy50 ==
    /\ screen = "Notifications"
    /\ IsSome(budgets) /\ Lookup(budgets[1].categories, "food") = <<"5", "0">>
    /\ TrailingOn(SixKeyMapping, "food", StoredList, notif.at) = 400
    /\ \E n \in 1..Len(notif.generated) :
          /\ notif.generated[n].id = <<"over-", "food">>
          /\ notif.generated[n].remaining = 0 - 50

----------------------------------------------------------------------------
(* Properties of the savings-rate message *)

SavingsTitles == {"Excellent Savings Potential!", "Good Savings Potential",
                  "Low Savings Rate", "Overspending Alert!"}

\* The savings-rate messages among the insights the open planner holds.
PlannerSavingsMessages ==
    SelectSeq(planner.financialInsights, LAMBDA m : m.title \in SavingsTitles)

\* The weekly allowance the open planner computes with: 7 times the figure in
\* its allowance field.
PlannerAllowance ==
    7 * ParseFloatOrZero(IF variant = "Planner0" THEN planner.weeklyAllowance
                         ELSE planner.dailyAllowance)

\* The band of savings-rate = (allowance - spend) / allowance * 100.
SavingsBand(allowance, spend) ==
    IF 100 * (allowance - spend) > 20 * allowance THEN "excellent"
    ELSE IF 100 * (allowance - spend) > 10 * allowance THEN "good"
    ELSE IF 100 * (allowance - spend) > 0 THEN "warning"
    ELSE "danger"

\* C5: whenever the allowance is greater than 0 exactly one savings-rate
\* message is emitted, its band fixed by the savings rate: above 20 excellent,
\* above 10 good, above 0 low, 0 or below overspending.
OneSavingsMessageByBand ==
    (screen = "BudgetPlanner" /\ variant \in {"Planner0", "Planner1"}
       /\ PlannerAllowance > 0) =>
        /\ Len(PlannerSavingsMessages) = 1
        /\ PlannerSavingsMessages[1].type =
              SavingsBand(PlannerAllowance, TrailingTotal(StoredList, planner.at))

BandRank(type) ==
    CASE type = "danger" -> 0
      [] type \in {"warning", "low"} -> 1
      [] type = "good" -> 2
      [] type = "excellent" -> 3

\* Amounts by which the spend of a state is raised for the comparison.
MoreSpent == {1, 69, 70, 71, 140, 280, 350, 700}

NotifSavingsInsights ==
    SelectSeq(notif.insights, LAMBDA m : m.title \in {"Savings Rate", "Overspending"})

\* C6: at a fixed allowance greater than 0, a larger trailing spend never gives
\* a higher savings-rate band (overspending < low < good < excellent) than the
\* band shown for the spend at hand, in the second planner and in the insight
\* of the notifications screen.
SavingsBandNeverRisesWithSpend ==
    /\ (screen = "BudgetPlanner" /\ variant = "Planner0" /\ PlannerAllowance > 0) =>
          \A d \in MoreSpent :
              \A m \in 1..Len(SavingsInsight0(PlannerAllowance,
                                              getTotalSpent(planner.spending) + d)) :
                  /\ Len(PlannerSavingsMessages) = 1
                  /\ BandRank(SavingsInsight0(PlannerAllowance,
                                 getTotalSpent(planner.spending) + d)[m].type)
                        <= BandRank(PlannerSavingsMessages[1].type)
    /\ (screen = "Notifications" /\ ConfiguredWeeklyAllowance > 0) =>
          \A d \in MoreSpent :
              \A m \in 1..Len(SavingsRateInsight(ConfiguredWeeklyAllowance,
                                  TrailingTotal(StoredList, notif.at) + d)) :
                  /\ Len(NotifSavingsInsights) = 1
                  /\ BandRank(SavingsRateInsight(ConfiguredWeeklyAllowance,
                                  TrailingTotal(StoredList, notif.at) + d)[m].type)
                        <= BandRank(NotifSavingsInsights[1].type)

\* The second planner with 100 typed as the allowance (700 a week) over a
\* trailing spend of 560: a rate of 20, shown as the band below excellent, with
\* two lower bands still beneath it.
WitnessGoodBandAt560 ==
    /\ screen = "BudgetPlanner" /\ variant = "Planner0"
    /\ PlannerAllowance = 700 /\ getTotalSpent(planner.spending) = 560
    /\ Len(PlannerSavingsMessages) = 1 /\ PlannerSavingsMessages[1].type = "good"

----------------------------------------------------------------------------
(* Properties of a category without a usable limit *)

\* The stored limit of a category is missing, zero or not a number.
NoBudgetSet(key) ==
    \/ ~IsSome(budgets)
    \/ key \notin DOMAIN budgets[1].categories
    \/ ParseFloat(budgets[1].categories[key]).nan
    \/ ParseFloat(budgets[1].categories[key]).val = 0

\* C7: a category whose configured limit is missing, zero or not a number has
\* no budget set: whatever its trailing spend, the dashboard holds no warning
\* for it, the notifications screen generates no budget alert for it, and the
\* planner gives it no status.
NoBudgetNoAlert ==
    \A k \in AllKeys \ {"other"} :
        NoBudgetSet(k) =>
            /\ homeVariant = "HomeScreen" =>
                  \A n \in 1..Len(home.budgetWarnings) :
                      home.budgetWarnings[n].category # HomeLabel(k)
            /\ screen = "Notifications" =>
                  \A n \in 1..Len(notif.generated) :
                      notif.generated[n].id \notin {<<"over-", k>>, <<"warning-", k>>}
            /\ (screen = "BudgetPlanner" /\ variant \in {"Planner", "Planner0"}) =>
                  getStatus(planner, k) = "null"

\* The planner is open over a food limit that is not a number and a trailing
\* food spend of 630.
WitnessSpendWithoutLimit ==
    /\ screen = "BudgetPlanner" /\ variant = "Planner"
    /\ IsSome(budgets) /\ Lookup(budgets[1].categories, "food") = <<"a", "b">>
    /\ SpentOn(planner.spending, "food") = 630

----------------------------------------------------------------------------
(* Properties of the unit of a stored limit *)

\* C8: for the same stored limit L > 0 and trailing spend S the Home dashboard
\* compares S with 7 * L (a warning from 80 % of 7 * L, over from 7 * L) while
\* the planner status and the backend notifications compare S with L (near
\* from 80 % of L, over from L).
DailyOnHomeWeeklyElsewhere ==
    /\ IsSome(budgets) =>
          \A k \in DOMAIN budgets[1].categories :
              LET L == ParseFloatOrZero(budgets[1].categories[k])
              IN  L > 0 =>
                  /\ homeVariant = "HomeScreen" =>
                        LET S == TrailingOn(HomeMapping, k, home.transactions, home.at)
                            mine == Where(home.budgetWarnings,
                                          LAMBDA w : w.category = HomeLabel(k))
                        IN  /\ mine # {} <=> 10 * S >= 8 * (7 * L)
                            /\ \A n \in mine :
                                  home.budgetWarnings[n].isOver <=> S >= 7 * L
                  /\ screen = "BudgetPlanner" =>
                        LET S == TrailingOn(SixKeyMapping, k, StoredList, planner.at)
                        IN  /\ getStatus(planner, k) = "Over Budget!" <=> S >= L
                            /\ getStatus(planner, k) \in {"Over Budget!", "Almost Over"}
                                  <=> 10 * S >= 8 * L
    /\ (IsSome(api.budget) /\ api.response # <<>>
          /\ api.response[1].route = "notifications") =>
          \A i \in 1..Len(ApiKeys) :
              LET k == ApiKeys[i]
                  L == api.budget[1][k]
                  S == TrailingOn(SixKeyMapping, k, api.rows, api.at)
                  mine == Where(api.response[1].body, LAMBDA n : n.category = k)
              IN  L > 0 =>
                  /\ mine # {} <=> 10 * S >= 8 * L
                  /\ \A n \in mine :
                        api.response[1].body[n].type = "alert" <=> S >= L

\* A stored food limit of 100 and a trailing food spend of 280: the planner
\* reports over budget, the dashboard loaded at the same moment over the same
\* list holds no warning, and the backend, given the same limit and a row of the
\* same amount, answers with an alert.
WitnessPlannerOverHomeSilent ==
    /\ screen = "BudgetPlanner" /\ getStatus(planner, "food") = "Over Budget!"
    /\ SpentOn(planner.spending, "food") = 280
    /\ home.transactions = StoredList /\ home.at = planner.at
    /\ home.budgetWarnings = <<>>
    /\ api.response # <<>> /\ api.response[1].route = "notifications"
    /\ \E n \in 1..Len(api.response[1].body) :
          /\ api.response[1].body[n].category = "food"
          /\ api.response[1].body[n].type = "alert"
          /\ api.response[1].body[n].budget = 100
          /\ api.response[1].body[n].spent = 280

----------------------------------------------------------------------------
(* The store's reads and writes followed one by one: adds from the second
   form, deletes from either Home, and the way back to Home while a save is
   still awaiting. *)

NextAsync ==
    \/ Tick(1)
    \/ OpenAddTransaction("Add2")
    \/ \E amount \in {<<>>, <<"5">>} :
          handleSave2Begin(<<>>, amount, "Food & Snacks")
    \/ DismissDialog
    \/ GoBack
    \/ \E i \in 1..Len(home.transactions) :
          handleDeleteTransaction(home.transactions[i].id)
    \/ DeletePressedBegin
    \/ CancelPressed
    \/ \E i \in 1..Len(pending) : getItemResolves(i)
    \/ \E i \in 1..Len(pending) : setItemResolves(i)

SpecAsync == Init /\ [][NextAsync]_vars

----------------------------------------------------------------------------
(* Saves with a storage write that may fail: transactions from the second
   form, budget plans from the first and the third planner. *)

FaultConfigs == {None, Some(BudgetData([food |-> Txt(100)], Txt(700), Txt(100), <<>>))}

InitFaults == InitWith(FaultConfigs, {"HomeScreen"})

NextFaults ==
    \/ Tick(1)
    \/ OpenAddTransaction("Add2")
    \/ \E amount \in {<<>>, <<"5">>} : handleSave2(<<>>, amount, "Food & Snacks")
    \/ handleSave2Fails(<<>>, <<"5">>, "Food & Snacks")
    \/ DismissDialog
    \/ GoBack
    \/ \E v \in {"Planner", "Planner1"} : OpenBudgetPlanner(v)
    \/ \E value \in {Txt(50), Txt(200)} : updateBudget("food", value)
    \/ \E ok \in BOOLEAN : saveBudgets(ok)
    \/ \E ok \in BOOLEAN : saveBudgets1(ok)
    \/ \E ok \in BOOLEAN : CautionYesSave(ok)
    \/ CautionCancel

SpecFaults == InitFaults /\ [][NextFaults]_vars

----------------------------------------------------------------------------
(* A first launch: the onboarding with its budget setup, a budget sent to the
   backend, the app closed and opened again, and the onboarding reset from the
   Settings. *)

OnboardingBuilds == {"OnboardingScreen", "OnboardingCopy"}

InitOnboarding ==
    /\ now = 0 /\ ticks = 0
    /\ transactions = None /\ dismissed = None /\ budgets = None
    /\ hasLaunched = None /\ isFirstLaunch = None
    /\ homeVariant = "HomeScreen"
    /\ screen = "Loading" /\ variant = "Loading"
    /\ home = HomeInitial /\ planner = PlannerInitial /\ notif = NotifInitial
    /\ api = ApiInitial /\ dialog = NoDialog /\ pending = <<>>
    /\ onboarding \in {OnboardingInitial(b) : b \in OnboardingBuilds}
    /\ stats = StatsInitial

Malformed == <<"a", "b">>

OnboardingBodies ==
    { [k \in {"weeklyAllowance", "food"} |-> IF k = "food" THEN Txt(100) ELSE Txt(700)],
      [k \in {"weeklyAllowance", "food"} |-> IF k = "food" THEN <<>> ELSE Malformed] }

NextOnboarding ==
    \/ checkFirstLaunch
    \/ Launch
    \/ handleNext
    \/ handleSkip
    \/ \E text \in {<<>>, Malformed, Txt(0), Txt(100)} : setAmount(text)
    \/ \E value \in {Malformed, Txt(50)} : onboardingUpdateBudget("food", value)
    \/ \E text \in {Malformed, Txt(50)} : setSavingsGoal(text)
    \/ handleSaveBudget
    \/ handleSaveBudgetCopy
    \/ DismissDialog
    \/ \E body \in OnboardingBodies : ApiPostBudget(body)
    \/ OpenSettings
    \/ handleResetOnboarding
    \/ ResetOnboardingPressed
    \/ handleClearAllData
    \/ ClearAllPressed
    \/ SettingsCancelPressed
    \/ GoBack

SpecOnboarding == InitOnboarding /\ [][NextOnboarding]_vars

----------------------------------------------------------------------------
(* The backend alone: rows created, looked up and summed, a budget saved, and
   database calls that throw. *)

ApiIds == {<<"row", n>> : n \in 0..MaxTxns}

NextApi ==
    \/ Tick(1)
    \/ \E body \in UnitsBodies : ApiPostBudget(body)
    \/ \E title \in {<<>>, <<"x">>}, e \in UnitsEntries, timestamp \in {0, now} :
          ApiPostTransaction(title, e[1], e[2], e[3], timestamp)
    \/ \E id \in ApiIds, found \in BOOLEAN : ApiGetTransaction(id, found)
    \/ \E period \in Periods \cup {"yearly"}, found \in BOOLEAN :
          ApiGetStatistics(period, found)
    \/ ApiGetNotifications
    \/ \E e \in UnitsEntries : ApiPostTransactionThrows(<<"x">>, e[1], e[2], e[3], now)
    \/ \E route \in {"budget", "notifications"} : ApiThrows(route)

SpecApi == InitUnits /\ [][NextApi]_vars

----------------------------------------------------------------------------
(* The Settings list over a store that holds a budget and transactions. *)

InitSettings == InitWith(UnitsConfigs, HomeVariants)

NextSettings ==
    \/ Tick(1)
    \/ OpenAddTransaction("Add1")
    \/ \E e \in UnitsEntries : handleSave1(<<"x">>, e[1], e[2], e[3])
    \/ DismissDialog
    \/ GoBack
    \/ OpenSettings
    \/ handleClearTransactions
    \/ handleClearBudgets
    \/ ClearTransactionsPressed
    \/ ClearBudgetsPressed
    \/ SettingsCancelPressed

SpecSettings == InitSettings /\ [][NextSettings]_vars

----------------------------------------------------------------------------
(* The destructive reset over a store that holds every entry, and the launch
   after it. *)

InitReset == InitWith(UnitsConfigs, HomeVariants)

NextReset ==
    \/ OpenAddTransaction("Add1")
    \/ \E e \in UnitsEntries : handleSave1(<<"x">>, e[1], e[2], e[3])
    \/ DismissDialog
    \/ GoBack
    \/ OpenNotifications
    \/ \E id \in {<<"high-daily">>, <<"good-savings">>} : dismissNotification(id)
    \/ OpenSettings
    \/ handleClearAllData
    \/ ClearAllPressed
    \/ HomeClearAllData
    \/ HomeClearAllPressed
    \/ SettingsCancelPressed
    \/ Launch
    \/ checkFirstLaunch
    \/ handleSkip

SpecReset == InitReset /\ [][NextReset]_vars

----------------------------------------------------------------------------
(* Home and the Notifications over one store, with limits for a category both
   screens have in their tables and for one only Home has. *)

WarnConfigs ==
    { Some(BudgetData([k \in {"food", "entertainment"} |->
                          IF k = "food" THEN Txt(50) ELSE Txt(10)],
                      Txt(700), Txt(100), <<>>)) }

WarnEntries ==
    { <<Txt(280), "expense", "Food & Snacks">>,
      <<Txt(70), "expense", "Entertainment">> }

InitWarn == InitWith(WarnConfigs, {"HomeScreen"})

NextWarn ==
    \/ Tick(1)
    \/ OpenAddTransaction("Add1")
    \/ \E e \in WarnEntries : handleSave1(<<"x">>, e[1], e[2], e[3])
    \/ DismissDialog
    \/ GoBack
    \/ OpenNotifications
    \/ onRefresh

SpecWarn == InitWarn /\ [][NextWarn]_vars

----------------------------------------------------------------------------
(* Home and the Statistics over one store, the clock followed past one window. *)

StatsEntries ==
    { <<Txt(280), "expense", "Food & Snacks">>,
      <<Txt(300), "income", "Allowance">> }

InitStats == InitWith(UnitsConfigs, HomeVariants)

NextStats ==
    \/ \E d \in TickSteps : Tick(d)
    \/ OpenAddTransaction("Add1")
    \/ \E e \in StatsEntries : handleSave1(<<"x">>, e[1], e[2], e[3])
    \/ DismissDialog
    \/ GoBack
    \/ OpenStatistics
    \/ \E p \in {"daily", "weekly", "monthly"} : setPeriod(p)

SpecStats == InitStats /\ [][NextStats]_vars

----------------------------------------------------------------------------
(* The three planners over a stored plan: opened, edited or not, and saved. *)

PlannerVariants == {"Planner", "Planner0", "Planner1"}

InitPlanner == InitWith(UnitsConfigs, {"HomeScreen"})

NextPlanner ==
    \/ \E v \in PlannerVariants : OpenBudgetPlanner(v)
    \/ \E value \in {Txt(50)} : updateBudget("food", value)
    \/ \E text \in {Txt(50)} : setWeeklyAllowance(text)
    \/ \E ok \in BOOLEAN : saveBudgets(ok)
    \/ \E ok \in BOOLEAN : saveBudgets0(ok)
    \/ \E ok \in BOOLEAN : saveBudgets1(ok)
    \/ \E ok \in BOOLEAN : CautionYesSave(ok)
    \/ CautionCancel
    \/ DismissDialog
    \/ GoBack

SpecPlanner == InitPlanner /\ [][NextPlanner]_vars

----------------------------------------------------------------------------
(* Notifications dismissed one by one or all at once, loaded again as the
   store changes, and the dismissed list removed by the reset. *)

DismissIds == {<<"high-daily">>, <<"good-savings">>, <<"warning-", "food">>}

InitDismiss == InitWith(UnitsConfigs, {"HomeScreen"})

NextDismiss ==
    \/ Tick(1)
    \/ OpenAddTransaction("Add1")
    \/ \E e \in UnitsEntries : handleSave1(<<"x">>, e[1], e[2], e[3])
    \/ DismissDialog
    \/ GoBack
    \/ OpenNotifications
    \/ onRefresh
    \/ \E id \in DismissIds : dismissNotification(id)
    \/ clearAllNotifications
    \/ ClearAllNotificationsPressed
    \/ SettingsCancelPressed
    \/ HomeClearAllData
    \/ HomeClearAllPressed

SpecDismiss == InitDismiss /\ [][NextDismiss]_vars

----------------------------------------------------------------------------
(* Dismissals with their awaited write followed: a second press before the
   first write has resumed, and the way back to Home in between. *)

NextAsyncDismiss ==
    \/ OpenAddTransaction("Add1")
    \/ \E e \in UnitsEntries : handleSave1(<<"x">>, e[1], e[2], e[3])
    \/ DismissDialog
    \/ GoBack
    \/ OpenNotifications
    \/ onRefresh
    \/ \E id \in DismissIds : dismissNotificationBegin(id)
    \/ \E i \in 1..Len(pending) : dismissSetItemResolves(i)

SpecAsyncDismiss == InitDismiss /\ [][NextAsyncDismiss]_vars

----------------------------------------------------------------------------
(* Notifications of several priorities, pushed in another order than they are
   shown in: a near-limit category before an exceeded one, and tips after. *)

PriorityConfigs ==
    { Some(BudgetData([k \in {"transportation", "food"} |->
                          IF k = "food" THEN Txt(10) ELSE Txt(50)],
                      Txt(700), Txt(100), <<>>)) }

PriorityEntries ==
    { <<Txt(280), "expense", "Transportation">>,
      <<Txt(70), "expense", "Food & Snacks">> }

InitPriority == InitWith(PriorityConfigs, {"HomeScreen"})

NextPriority ==
    \/ Tick(1)
    \/ OpenAddTransaction("Add1")
    \/ \E e \in PriorityEntries : handleSave1(<<"x">>, e[1], e[2], e[3])
    \/ DismissDialog
    \/ GoBack
    \/ OpenNotifications
    \/ onRefresh
    \/ \E id \in DismissIds \cup {<<"over-", "food">>} : dismissNotification(id)

SpecPriority == InitPriority /\ [][NextPriority]_vars

----------------------------------------------------------------------------
(* The screens loading again after the store, or its transaction list, was
   cleared; the three versions of Home. *)

ClearEntries ==
    { <<Txt(560), "expense", "Food & Snacks">>,
      <<Txt(300), "income", "Allowance">> }

InitClear == InitWith(UnitsConfigs, HomeVariants \cup {"HomeScreenThird"})

NextClear ==
    \/ OpenAddTransaction("Add1")
    \/ \E e \in ClearEntries : handleSave1(<<"x">>, e[1], e[2], e[3])
    \/ DismissDialog
    \/ GoBack
    \/ OpenStatistics
    \/ \E p \in {"daily", "weekly"} : setPeriod(p)
    \/ OpenSettings
    \/ handleClearAllData
    \/ ClearAllPressed
    \/ handleClearTransactions
    \/ ClearTransactionsPressed
    \/ SettingsCancelPressed
    \/ HomeClearAllData
    \/ HomeClearAllPressed

SpecClear == InitClear /\ [][NextClear]_vars

----------------------------------------------------------------------------
(* Frame properties of the store *)

\* C11: a successful add-transaction stores the previous list with the new
\* transaction inserted at the front: the new record is at index 0 and every
\* earlier record is kept, unchanged and in its previous relative order.
AddInsertsAtFront ==
    [][Len(ParsedOrEmpty(transactions')) > Len(StoredList) =>
          /\ Tail(ParsedOrEmpty(transactions')) = StoredList
          /\ Head(ParsedOrEmpty(transactions')).timestamp = now
          /\ Head(ParsedOrEmpty(transactions')).id = NumberToString(now)]_vars

\* Two adds a millisecond or more apart: the later record is in front of the
\* earlier one.
WitnessLaterAddInFront ==
    /\ Len(StoredList) = 2
    /\ StoredList[1].timestamp > StoredList[2].timestamp
    /\ StoredList[1].title # StoredList[2].title

\* C12: a transaction is removed only after the user confirms the delete
\* dialog: a step that takes records out of the stored list starts from the
\* open dialog and stores the list without the records of the chosen
\* identifier, every other record present, unchanged and in order; a step from
\* the open dialog that does not delete (Cancel) leaves the stored list as it
\* was.
DeleteOnlyOnConfirm ==
    [][/\ Len(ParsedOrEmpty(transactions')) < Len(StoredList) =>
            /\ dialog.kind = "confirm"
            /\ \E i \in 1..Len(StoredList) : StoredList[i].id = dialog.id
            /\ ParsedOrEmpty(transactions') =
                  SelectSeq(StoredList, LAMBDA t : t.id # dialog.id)
       /\ (dialog.kind = "confirm"
             /\ Len(ParsedOrEmpty(transactions')) >= Len(StoredList)) =>
            transactions' = transactions]_vars

\* A confirmed delete has emptied the list: the entry is stored, and holds no
\* record, and Home shows none.
WitnessListEmptiedByDelete ==
    /\ transactions = Some(<<>>)
    /\ screen = "Home" /\ dialog.kind = "none" /\ home.transactions = <<>>

----------------------------------------------------------------------------
(* Interleaved storage calls *)

Completed(i) == pending[i].pc = "done"

\* C13: with every begun operation completed, the stored list reflects all of
\* them: the record of each add is stored unless a delete chose its
\* identifier, and the identifier of each delete is stored nowhere unless an
\* add begun after the delete made it again.
NoCompletedOperationLost ==
    (\A i \in 1..Len(pending) : Completed(i)) =>
       \A i \in 1..Len(pending) :
          IF pending[i].op = "save"
          THEN \/ \E k \in 1..Len(StoredList) : StoredList[k] = pending[i].txn[1]
               \/ \E j \in 1..Len(pending) :
                     pending[j].op = "delete" /\ pending[j].id = pending[i].id
          ELSE \/ \A k \in 1..Len(StoredList) : StoredList[k].id # pending[i].id
               \/ \E j \in (i + 1)..Len(pending) :
                     pending[j].op = "save" /\ pending[j].id = pending[i].id

----------------------------------------------------------------------------
(* The computations and the store *)

\* C14: computing the aggregates and insights never writes to the store: a
\* step that arrives on a screen (Home's focus load, the planner's and the
\* notification screen's mount load) or is made on the notification screen
\* (its refresh) leaves the stored transactions entry and the stored budgets
\* entry as they were.
ComputingLeavesStore ==
    [][(screen' # screen \/ screen = "Notifications") =>
          (transactions' = transactions /\ budgets' = budgets)]_vars

\* Spending is stored; Home has computed its totals from it and the
\* notification screen its messages and insights.
WitnessAllComputed ==
    /\ screen = "Notifications"
    /\ notif.generated # <<>> /\ notif.insights # <<>>
    /\ home.transactions = StoredList /\ home.spentThisWeek > 0
    /\ IsSome(transactions) /\ IsSome(budgets)

----------------------------------------------------------------------------
(* Failing writes *)

FailureTexts ==
    {"Failed to save transaction", "Failed to save budget plan", "Failed to save budget"}

SaveFailed(d) == d.kind = "error" /\ d.text \in FailureTexts

\* C16: a save whose storage write fails ends by showing a failure dialog with
\* a static text and leaves the stored transactions and budgets as they were
\* before the attempt; nothing is left in flight to write later, and nothing
\* is written while the dialog is shown.
FailedWriteLeavesStore ==
    [][/\ (SaveFailed(dialog') /\ ~SaveFailed(dialog)) =>
            /\ transactions' = transactions /\ budgets' = budgets
            /\ pending' = <<>>
            /\ dialog.kind \in {"none", "caution"}
       /\ SaveFailed(dialog) =>
            /\ transactions' = transactions /\ budgets' = budgets
            /\ pending' = <<>>]_vars

\* The third planner tells that its write failed, with a transaction and a
\* plan in the store and a limit on the screen that the store does not hold.
WitnessBudgetWriteFailed ==
    /\ dialog = ErrorDialog("Failed to save budget")
    /\ IsSome(budgets) /\ StoredList # <<>>
    /\ planner.budgets["food"] # budgets[1].categories["food"]

----------------------------------------------------------------------------
(* Numeric input of a budget *)

AllowanceRejected == ErrorDialog("Please enter your allowance amount")

\* What a stored or a sent number reads as: itself, or 0 when it is missing or
\* no number.
ReadsAs(text) == IF ParseFloat(text).nan THEN 0 ELSE ParseFloat(text).val

----------------------------------------------------------------------------
(* Error statuses of the backend *)

Failing == api.response # <<>> /\ api.response[1].status >= 400

AddressedRowMissing ==
    ~\E i \in 1..Len(api.rows) : api.rows[i].id = api.request.id

\* C18 as stated: a failing request is answered 404 when the addressed row
\* does not exist and 500 in every other case, and with no other status.
ErrorsAre404Or500 ==
    Failing =>
        /\ api.response[1].status \in {404, 500}
        /\ api.response[1].status = 404 =>
              api.response[1].route = "transaction" /\ AddressedRowMissing

\* C18, amended: a failing request is answered 400 when the request itself is
\* wrong (a required field missing from POST /api/transactions, a period
\* other than daily, weekly or monthly in GET /api/statistics/:period), 404
\* when the addressed row does not exist, and 500 in every other case; no
\* other error status is returned.
ErrorsAre400Or404Or500 ==
    Failing =>
        LET status == api.response[1].status
            route == api.response[1].route
            request == api.request
            wrong ==
                \/ /\ route = "transactions"
                   /\ request.title = <<>> \/ request.amount = <<>>
                        \/ request.timestamp = 0
                \/ /\ route = "statistics"
                   /\ request.period \notin {"daily", "weekly", "monthly"}
        IN  /\ status \in {400, 404, 500}
            /\ status = 400 <=> wrong
            /\ status = 404 =>
                  route = "transaction" /\ request.id # <<>> /\ AddressedRowMissing
            /\ (route = "transaction" /\ status = 500) => request.id # <<>>

\* A lookup of an identifier no row has was answered 404, with a row stored.
WitnessMissingRow404 ==
    /\ api.response # <<>> /\ api.response[1].status = 404
    /\ api.rows # <<>> /\ AddressedRowMissing

----------------------------------------------------------------------------
(* First launch *)

----------------------------------------------------------------------------
(* Clearing from the Settings *)

\* C20: Clear Transactions, once confirmed, removes the stored transaction
\* list and leaves the stored budget configuration as it was; Clear Budgets,
\* once confirmed, removes the stored budget configuration and leaves the
\* stored transaction list as it was; Cancel removes nothing.
ClearRemovesOnlyItsEntry ==
    [][/\ (dialog = AskDialog("Clear Transactions") /\ dialog'.kind = "success") =>
            (transactions' = None /\ budgets' = budgets)
       /\ (dialog = AskDialog("Clear Budget Settings") /\ dialog'.kind = "success") =>
            (budgets' = None /\ transactions' = transactions)
       /\ (dialog.kind = "ask" /\ dialog'.kind = "none") =>
            (transactions' = transactions /\ budgets' = budgets)
       /\ (transactions # None /\ transactions' = None) =>
            dialog = AskDialog("Clear Transactions")
       /\ (budgets # None /\ budgets' = None) =>
            dialog = AskDialog("Clear Budget Settings")]_vars

\* The transactions Home still shows were cleared from the store; the budget
\* is still stored.
WitnessTransactionsCleared ==
    /\ dialog = SuccessDialog("All transactions cleared!")
    /\ transactions = None /\ IsSome(budgets)
    /\ home.transactions # <<>>

----------------------------------------------------------------------------
(* The destructive reset *)

----------------------------------------------------------------------------
(* Home's warnings and the alerts of the Notifications *)

\* The categories Home warns about, by label.
HomeWarned == {home.budgetWarnings[i].category : i \in 1..Len(home.budgetWarnings)}

\* The categories the Notifications generated an over-budget or near-limit
\* alert for, before the dismissed ones are filtered out, by label.
NotifAlerted ==
    {HomeLabel(notif.generated[i].id[2]) :
        i \in {j \in 1..Len(notif.generated) :
                  notif.generated[j].id[1] \in {"over-", "warning-"}}}

\* C22: with Home and the Notifications loaded from the same store at the same
\* time, the categories Home warns about are the categories the Notifications
\* generated an over-budget or near-limit alert for.
SameWarnedCategories ==
    (/\ screen = "Notifications" /\ notif.at = home.at
     /\ home.transactions = ParsedOrEmpty(transactions)) =>
        HomeWarned = NotifAlerted

----------------------------------------------------------------------------
(* The week of the Statistics and the week of Home *)

\* C23: with Home and the weekly Statistics loaded from the same stored
\* transactions at the same time, the spent total of the Statistics is Home's
\* spent-this-week, and the expenses the Statistics selected are the expenses
\* of Home's trailing 7 days.
StatisticsWeekIsHomeWeek ==
    (/\ screen = "Statistics" /\ stats.period = "weekly"
     /\ homeVariant = "HomeScreen"
     /\ IsSome(transactions) /\ home.transactions = transactions[1]
     /\ stats.at = home.at) =>
        /\ stats.totalSpent = home.spentThisWeek
        /\ SelectSeq(stats.transactions, LAMBDA t : t.type = "expense")
             = SelectSeq(home.transactions, LAMBDA t : InWeek(t, home.at))

----------------------------------------------------------------------------
(* The stored plan across the planners *)

\* The numbers a stored plan reads as: the allowances and every limit.
PlanNumbers(b) ==
    [k \in {"dailyAllowance", "weeklyAllowance"} \cup AllKeys |->
        CASE k = "dailyAllowance" -> ParseFloatOrZero(b.dailyAllowance)
          [] k = "weeklyAllowance" -> ParseFloatOrZero(b.weeklyAllowance)
          [] OTHER -> ParseFloatOrZero(Lookup(b.categories, k))]

\* The form of the mounted planner holds what its load put there.
PlannerUnedited ==
    /\ screen = "BudgetPlanner"
    /\ planner = CASE variant = "Planner" ->
                        PlannerMount(transactions, budgets, planner.at)
                   [] variant = "Planner0" ->
                        Planner0Mount(transactions, budgets, planner.at)
                   [] OTHER -> Planner1Mount(transactions, budgets, planner.at)

\* C24: a planner that loaded the stored plan and saves it with no field
\* edited leaves the stored daily allowance, weekly allowance and limits with
\* the numbers they had, however often that is repeated.
LoadThenSaveKeepsPlan ==
    [][(/\ IsSome(budgets) /\ PlannerUnedited
        /\ dialog' = SuccessDialog("Budget plan saved!")) =>
            (IsSome(budgets') /\ PlanNumbers(budgets'[1]) = PlanNumbers(budgets[1]))]_vars

\* C25: a stored plan that has a weekly allowance has a daily allowance too,
\* and the weekly one is 7 times the daily one.
WeeklyIsSevenDaily ==
    (IsSome(budgets) /\ budgets[1].weeklyAllowance # Undefined) =>
        /\ budgets[1].dailyAllowance # Undefined
        /\ ParseFloatOrZero(budgets[1].weeklyAllowance)
             = 7 * ParseFloatOrZero(budgets[1].dailyAllowance)

----------------------------------------------------------------------------
(* The plan the onboarding stores *)

\* C26: the onboarding stores no budget configuration whose limits sum to
\* more than the daily allowance entered: with such input in the form the store
\* is left as it was, whatever is pressed.
OverAllocationNeverStored ==
    [][(/\ screen = "Onboarding"
        /\ getTotalBudgeted(onboarding.budgets) > ParseFloatOrZero(onboarding.amount)) =>
            budgets' = budgets]_vars

----------------------------------------------------------------------------
(* Dismissed notifications *)

\* The ids of a list of ids or of notifications, as a set.
IdSet(ids) == {ids[i] : i \in 1..Len(ids)}

NoDismissalLost ==
    (\A i \in 1..Len(pending) : Completed(i)) =>
        \A i \in 1..Len(pending) :
            pending[i].id \in IdSet(ParsedOrEmpty(dismissed))

----------------------------------------------------------------------------
(* The order of the notifications *)

\* C29: in the list on display every high-priority notification comes before
\* every medium-priority one, and every medium-priority one before every
\* low-priority one.
DisplayedByPriority ==
    \A i, j \in 1..Len(notif.notifications) :
        i < j => PriorityRank(notif.notifications[i].priority)
                    >= PriorityRank(notif.notifications[j].priority)

\* Notifications of all three priorities are on display, the exceeded category
\* first, though a near-limit one was pushed before it.
WitnessHighShownBeforeEarlierMedium ==
    /\ screen = "Notifications"
    /\ notif.generated # <<>> /\ notif.generated[1].priority = "medium"
    /\ notif.notifications # <<>> /\ notif.notifications[1].priority = "high"
    /\ \E i \in 1..Len(notif.notifications) : notif.notifications[i].priority = "low"

----------------------------------------------------------------------------
(* The screens over a cleared store *)

\* C30: a screen that loads with no transactions entry in the store shows no
\* transactions, zero spend and no warnings; with the budgets entry gone too it
\* shows no allowance, no savings goal, no savings and no balance.
EmptyStoreShownEmpty ==
    [][/\ (/\ screen' = "Home" /\ (screen # "Home" \/ home' # home)
           /\ transactions' = None) =>
            /\ home'.transactions = <<>>
            /\ home'.spentThisWeek = 0 /\ home'.spentToday = 0
            /\ home'.budgetWarnings = <<>>
            /\ budgets' = None =>
                  /\ home'.dailyAllowance = 0 /\ home'.weeklyAllowance = 0
                  /\ home'.savingsGoal = 0 /\ home'.currentSavings = 0
                  /\ home'.balance = 0
       /\ (/\ screen' = "Statistics" /\ (screen # "Statistics" \/ stats' # stats)
           /\ transactions' = None) =>
            /\ stats'.transactions = <<>> /\ stats'.transactionCount = 0
            /\ stats'.totalSpent = 0 /\ stats'.totalIncome = 0]_vars

====
